---- MODULE Spec2Model ----
(***************************************************************************)
(* Model of the SQL-backed distributed lock of package distrlock           *)
(* (db_lock.go) together with the transaction helper DoInTx it is used    *)
(* with.  The lock table is the shared state; handles (DBLock values) are  *)
(* the client-side views; the database is modelled as a store with         *)
(* row-level write locks and read-committed visibility.                    *)
(***************************************************************************)
EXTENDS Integers, FiniteSets, Sequences, TLC

\* ------------------------------------------------------------------ bounds
NHandles == 2
MaxTime == 3
\* registrations of retry predicates, and wrapping layers around an error
MaxRegs == 3
MaxWrap == 2

\* --------------------------------------------------------------- constants
Handles == 1..NHandles
Keys == {"k1", "k2"}
NoKey == "none"
\* the keys the callers of the main specification lock
SpecKeys == {"k1"}
\* the longest key NewLock accepts, in len(key)
MaxKeyLen == 40
\* A key string: the row it names and its characters, counted by the bytes
\* their UTF-8 encoding takes (one or two here).
KeyString(row, ascii, wide) == [row |-> row, ascii |-> ascii, wide |-> wide]
\* key strings callers pass to NewLock: one character, 39 characters in 40
\* bytes, the empty string, 41 one-byte characters, 40 characters in 41
\* bytes, 21 characters in 42 bytes
KeyStrings == {KeyString("k1", 1, 0), KeyString("k2", 38, 1),
               KeyString(NoKey, 0, 0), KeyString(NoKey, 41, 0),
               KeyString(NoKey, 39, 1), KeyString(NoKey, 0, 21)}
\* zero value of DBLock.token (the empty string)
NoToken == 0
\* SQL NULL in column expire_at
NULL == -1
\* tokens passed by callers to AcquireWithStaticToken
StaticTokens == {-2}
\* values uuid.NewString() returns in the process that uses handle h: the
\* supplies of two processes are disjoint, and disjoint from the static tokens
FreshTokens(h) == {10 * h + i : i \in 1..4}
\* lock TTLs callers pass, in ticks of the server clock: a short and a long one
TTLs == {1, 2}
\* periodicExtendInterval values callers pass, in ticks of the server clock
Intervals == {1, 2}

ErrNil == "nil"
ErrLockAlreadyAcquired == "distributed lock already acquired"
ErrLockAlreadyReleased == "distributed lock already released"
ErrCtx == "context error"
ErrKeyEmpty == "lock key cannot be empty"
ErrKeyTooLong == "lock key cannot be longer than 40 symbols"
ErrDriver == "driver error"
\* fmt.Errorf("begin tx: %w", err) and fmt.Errorf("commit tx: %w", err)
ErrBegin == "begin tx: driver error"
ErrCommit == "commit tx: driver error"

\* What the driver does with one statement:
\*   ok        the statement is executed and its result returned
\*   driverErr ExecContext returns an error, the statement has no effect
\*   ctxAfter  the statement is executed, the context is done when it returns
\*   ctxSilent the context is done, the driver reports no error and zero rows
Outcomes == {"ok", "driverErr", "ctxAfter", "ctxSilent"}
\* RowsAffected() of a statement for which ExecContext returned no sql.Result
NoResult == -1

VARIABLES
    now,        \* server-side clock, the value of NOW()
    rows,       \* committed content of the lock table, one row per key
    lockOwner,  \* row-level write lock: the handle whose open tx wrote the row
    tx,         \* per handle: the transaction its caller has open
    hkey,       \* DBLock.Key
    httl,       \* DBLock.TTL
    htoken,     \* DBLock.token
    ret,        \* the call that just returned: its token, error, the row it saw,
                \* the rows its statement affected and whether ctx.Err() was set
    holding,    \* history: handle's last committed acquire not yet released/expired
    lapsed,     \* history: some lease written so far has expired
    pc,         \* per handle: where its caller is in DoInTx or DoExclusively
    out,        \* per handle: what DoInTx or DoExclusively returned
    ext,        \* per handle: where DoExclusively's extension goroutine is
    extErr,     \* per handle: extendLockErr of the extension goroutine
    fnRes,      \* per handle: how the function passed to DoExclusively ended
    callerDone, \* per handle: the caller's ctx is cancelled or past its deadline
    childDone,  \* per handle: newCtxCancel has been called
    ticker,     \* per handle: the extension goroutine's time.Ticker
    calls,      \* history, per handle: how often each step of a call was taken
    retryableErrors, \* per driver type: the predicates registered, oldest first
    retry,      \* the last call of a classifier: driver, error, answer
    sql         \* one lock table per dialect, driven by the same calls

dbvars == <<now, rows, lockOwner, tx, hkey, httl, htoken, ret, holding>>
procvars == <<pc, out, ext, extErr, fnRes, callerDone, childDone>>
retryvars == <<retryableErrors, retry>>
vars == <<dbvars, lapsed, procvars, ticker, calls, retryvars, sql>>

\* ------------------------------------------------------------ lock table
NoRow == [exists |-> FALSE, token |-> NoToken, expire |-> NULL]
\* no call has returned since the last step of the clock or of a transaction
Idle == [op |-> "none", h |-> 0, tok |-> NoToken, err |-> ErrNil, pre |-> NoRow,
         aff |-> NoResult, ctxErr |-> FALSE]
\* A transaction is visible to others only through the row it has written and
\* not yet committed; dbConn.BeginTx itself changes nothing another caller
\* can see, so a transaction starts with its first statement.
NoTx == [dirty |-> FALSE, row |-> NoRow, eff |-> "none"]

\* A key is held iff its row exists, expire_at is present and expire_at >= now
Held(row, t) == row.exists /\ row.expire # NULL /\ row.expire >= t
Free(row, t) == ~Held(row, t)

\* INSERT ... (lock_key) VALUES ($1) ON CONFLICT (lock_key) DO NOTHING
\* mutant: the insert replaces a row that exists (ON CONFLICT DO UPDATE)
initLock_Replace(row) == [NoRow EXCEPT !.exists = TRUE]

initLock(row) == IF row.exists THEN row ELSE [NoRow EXCEPT !.exists = TRUE]

\* mutant: the acquire statement does not look at expire_at
acquireLockWhere_AnyRow(row, token, t) == row.exists

\* mutant: no "expire_at < NOW()": only a released row can be taken
acquireLockWhere_NullOnly(row, token, t) ==
    row.exists /\ (row.expire = NULL \/ row.token = token)

\* mutant: expire_at <= NOW() instead of expire_at < NOW()
acquireLockWhere_ExpiredAtNow(row, token, t) ==
    row.exists /\ (row.expire = NULL \/ row.expire <= t \/ row.token = token)

\* mutant: no "OR token = $4"
acquireLockWhere_NoTokenArm(row, token, t) ==
    row.exists /\ (row.expire = NULL \/ row.expire < t)

\* UPDATE ... WHERE lock_key = $3 AND ((expire_at IS NULL OR expire_at < NOW()) OR token = $4)
acquireLockWhere(row, token, t) ==
    row.exists /\ (row.expire = NULL \/ row.expire < t \/ row.token = token)

\* SET expire_at = NOW() + $1::interval, token = $2
acquireLockSet(row, interval, token, t) ==
    [row EXCEPT !.expire = t + interval, !.token = token]

\* mutant: release does not compare the token
releaseLockWhere_AnyToken(row, token, t) ==
    row.exists /\ row.expire # NULL /\ row.expire >= t

\* mutant: release does not compare expire_at with NOW()
releaseLockWhere_Expired(row, token, t) ==
    row.exists /\ row.token # NoToken /\ row.token = token /\ row.expire # NULL

\* UPDATE ... WHERE lock_key = $1 AND token = $2 AND expire_at >= NOW()
releaseLockWhere(row, token, t) ==
    row.exists /\ row.token # NoToken /\ row.token = token
               /\ row.expire # NULL /\ row.expire >= t

\* mutant: release leaves expire_at as it is
releaseLockSet_Keep(row) == row

\* SET expire_at = NULL
releaseLockSet(row) == [row EXCEPT !.expire = NULL]

\* mutant: the extend statement does not compare expire_at with NOW()
extendLockWhere_Expired(row, token, t) ==
    row.exists /\ row.token # NoToken /\ row.token = token /\ row.expire # NULL

\* UPDATE ... WHERE lock_key = $2 AND token = $3 AND expire_at >= NOW()
extendLockWhere(row, token, t) ==
    row.exists /\ row.token # NoToken /\ row.token = token
               /\ row.expire # NULL /\ row.expire >= t

\* mutant: extend leaves expire_at as it is
extendLockSet_Keep(row, interval, t) == row

\* mutant: extend adds the interval to the old expire_at
extendLockSet_FromOld(row, interval, t) ==
    [row EXCEPT !.expire = row.expire + interval]

\* SET expire_at = NOW() + $1::interval
extendLockSet(row, interval, t) == [row EXCEPT !.expire = t + interval]

\* History of leases: after write `eff` of handle h on key k is committed,
\* h holds the lease it acquired unless that lease is already over, and a
\* release ends the lease of every handle that acquired under the row's token.
Committed(h, k, newRow, eff) ==
    [g \in Handles |->
        IF eff = "acq" /\ g = h THEN Held(newRow, now)
        ELSE IF eff = "rel" /\ hkey[g] = k /\ htoken[g] = newRow.token THEN FALSE
        ELSE holding[g]]

\* no ticker: time.NewTicker has not been called, or ticker.Stop() has
NoTicker == [interval |-> 0, start |-> 0, due |-> 0]
\* nothing counted yet
NoCalls == [begin |-> 0, fn |-> 0, commit |-> 0, rollback |-> 0, release |-> 0,
            extFault |-> FALSE, committed |-> FALSE]

\* --------------------------------------------------------------- tokens
UsedTokens ==
    {rows[k].token : k \in Keys} \cup {tx[h].row.token : h \in Handles}
        \cup {htoken[h] : h \in Handles}

\* uuid.NewString(): a token that occurs nowhere else
NewString(h) == CHOOSE t \in FreshTokens(h) \ UsedTokens :
                    \A u \in FreshTokens(h) \ UsedTokens : t <= u

\* ------------------------------------------------------- error values
\* driver types a predicate is registered for (reflect.TypeOf(d))
Drivers == {"*pq.Driver", "*mysql.MySQLDriver"}
\* predicates passed to RegisterIsRetryableFunc: the one of package postgres,
\* the one of package mysql, and one that returns false for every error
Predicates == {"postgres", "mysql", "never"}

\* One layer of an error value: its dynamic type and what identifies it
\* (error code name, error number, or message).
Layer(type, code) == [type |-> type, code |-> code]
PqDeadlockDetected == Layer("*pq.Error", "deadlock_detected")
PqSerializationFailure == Layer("*pq.Error", "serialization_failure")
PqUniqueViolation == Layer("*pq.Error", "unique_violation")
MySQLDeadlock == Layer("*mysql.MySQLError", "1213")
MySQLLockTimedOut == Layer("*mysql.MySQLError", "1205")
MySQLInvalidConn == Layer("*errors.errorString", "invalid connection")
DriverBadConn == Layer("*errors.errorString", "driver: bad connection")
LockAlreadyAcquired == Layer("*errors.errorString", ErrLockAlreadyAcquired)
LockAlreadyReleased == Layer("*errors.errorString", ErrLockAlreadyReleased)
\* errors that wrap nothing
Leaves == {PqDeadlockDetected, PqSerializationFailure, PqUniqueViolation,
           MySQLDeadlock, MySQLLockTimedOut, MySQLInvalidConn, DriverBadConn,
           LockAlreadyAcquired, LockAlreadyReleased}

\* wrapping layers: fmt.Errorf with %w, the three transaction errors of
\* dbrutil, and fmt.Errorf with %v, which keeps only the text of its cause
FmtW == Layer("*fmt.wrapError", "%w")
TxBeginError == Layer("*dbrutil.TxBeginError", "Inner")
TxCommitError == Layer("*dbrutil.TxCommitError", "Inner")
TxRollbackError == Layer("*dbrutil.TxRollbackError", "Inner")
FmtV == Layer("*errors.errorString", "%v")
Wrappers == {FmtW, TxBeginError, TxCommitError, TxRollbackError, FmtV}

\* An error value is the sequence of its layers, outermost first; nil is <<>>.
NilError == <<>>
NoRetry == [op |-> "none", d |-> "none", err |-> NilError, is |-> FALSE, rerun |-> FALSE,
            called |-> <<>>]

\* ---------------------------------------------------------------- dialects
\* newDBQueries: the dialects that have query templates (DialectPgx takes the
\* PostgreSQL ones)
Dialects == {"postgres", "mysql"}
\* a token string that is not the text of a UUID
PlainToken == -3
\* strings callers pass to AcquireWithStaticToken when dialects are compared:
\* a UUID, the empty string and a string that is no UUID
TokenStrings == StaticTokens \cup {NoToken, PlainToken}
\* microseconds in one tick of the clock: CURTIME(4) has four decimals
TickMicros == 100
\* one dialect's table and handles: no row yet, column token NULL after the
\* insert; err is what the last call returned under this dialect
NoSide == [row |-> [exists |-> FALSE, token |-> NULL, expire |-> NULL],
           token |-> [h \in Handles |-> NoToken],
           ttl |-> [h \in Handles |-> 0],
           err |-> ErrNil]
\* clock in ticks; op, h: the last call and its handle; tok: the token argument
\* of an acquire;
\* made: the handles NewLock has returned
NoSQL == [clock |-> 0, op |-> "none", h |-> 0, tok |-> NoToken,
          made |-> [h \in Handles |-> FALSE],
          side |-> [d \in Dialects |-> NoSide]]

\* ------------------------------------------------------------------ init
Init ==
    /\ now = 0
    /\ rows = [k \in Keys |-> NoRow]
    /\ lockOwner = [k \in Keys |-> 0]
    /\ tx = [h \in Handles |-> NoTx]
    /\ hkey = [h \in Handles |-> NoKey]
    /\ httl = [h \in Handles |-> 0]
    /\ htoken = [h \in Handles |-> NoToken]
    /\ ret = Idle
    /\ holding = [h \in Handles |-> FALSE]
    /\ lapsed = FALSE
    /\ pc = [h \in Handles |-> "idle"]
    /\ out = [h \in Handles |-> "none"]
    /\ ext = [h \in Handles |-> "off"]
    /\ extErr = [h \in Handles |-> ErrNil]
    /\ fnRes = [h \in Handles |-> "none"]
    /\ callerDone = [h \in Handles |-> FALSE]
    /\ childDone = [h \in Handles |-> FALSE]
    /\ ticker = [h \in Handles |-> NoTicker]
    /\ calls = [h \in Handles |-> NoCalls]
    /\ retryableErrors = [d \in Drivers |-> <<>>]
    /\ retry = NoRetry
    /\ sql = NoSQL

\* ------------------------------------------------------------- database
\* The row version a statement of handle h's caller sees through executor ex:
\* its own uncommitted write inside its transaction, else the committed row.
CurRow(h, ex) ==
    IF ex = "tx" /\ tx[h].dirty THEN tx[h].row ELSE rows[hkey[h]]

\* mutant: an UPDATE does not wait for the row's write lock
CanLock_Always(h, ex) == TRUE

\* mutant: an UPDATE locks the table, not the row of its key
CanLock_Table(h, ex) ==
    \A k \in Keys : lockOwner[k] = 0 \/ (ex = "tx" /\ lockOwner[k] = h)

\* The row's write lock is free for the statement (or already its own).
CanLock(h, ex) ==
    \/ lockOwner[hkey[h]] = 0
    \/ ex = "tx" /\ lockOwner[hkey[h]] = h

\* executor.ExecContext(ctx, query, args...) for one UPDATE on the handle's row.
\* matches: the WHERE clause on the row version seen; newRow: the row after SET;
\* eff: what the statement is ("acq", "rel" or "ext"); aff: rows affected.
ExecContext(h, ex, outcome, matches, matchesCommitted, newRow, eff, aff) ==
    LET k == hkey[h]
        applied == outcome \in {"ok", "ctxAfter"}
    IN  /\ IF ~applied
             THEN /\ aff = 0
                  /\ UNCHANGED <<rows, tx, lockOwner, holding>>
           ELSE IF ~CanLock(h, ex)
             \* the row is write-locked by another transaction: the statement
             \* waits, unless the committed version already fails its WHERE
             THEN /\ ~matchesCommitted
                  /\ aff = 0
                  /\ UNCHANGED <<rows, tx, lockOwner, holding>>
           ELSE IF ~matches
             THEN /\ aff = 0
                  /\ UNCHANGED <<rows, tx, lockOwner, holding>>
           ELSE IF ex = "tx"
             THEN /\ aff = 1
                  /\ tx' = [tx EXCEPT ![h].dirty = TRUE, ![h].row = newRow,
                                      ![h].eff = IF eff = "ext" THEN @ ELSE eff]
                  /\ lockOwner' = [lockOwner EXCEPT ![k] = h]
                  /\ UNCHANGED <<rows, holding>>
           ELSE /\ aff = 1
                /\ rows' = [rows EXCEPT ![k] = newRow]
                /\ holding' = Committed(h, k, newRow, eff)
                /\ UNCHANGED <<tx, lockOwner>>

\* The transaction of handle h's caller ends: its write becomes the committed
\* row (commit) or is dropped (rollback); its row lock is released.
EndTx(h, commit) ==
    LET k == hkey[h] IN
    /\ tx[h].dirty
    /\ tx' = [tx EXCEPT ![h] = NoTx]
    /\ lockOwner' = [q \in Keys |-> IF lockOwner[q] = h THEN 0 ELSE lockOwner[q]]
    /\ IF commit
         THEN /\ rows' = [rows EXCEPT ![k] = tx[h].row]
              /\ holding' = Committed(h, k, tx[h].row, tx[h].eff)
         ELSE UNCHANGED <<rows, holding>>

\* The server clock advances; a lease whose expire_at is passed is over.
Tick ==
    /\ now < MaxTime
    /\ now' = now + 1
    /\ holding' = [h \in Handles |->
                     holding[h] /\ hkey[h] # NoKey /\ Held(rows[hkey[h]], now + 1)]
    /\ ret' = Idle
    /\ UNCHANGED <<rows, lockOwner, tx, hkey, httl, htoken>>

\* ------------------------------------------------------------- lock API
\* result.RowsAffected() as execQueryAndCheck obtains it
RowsAffected(outcome, aff) == IF outcome = "driverErr" THEN NoResult ELSE aff

\* ctx.Err() != nil where execQueryAndCheck reads it, after ExecContext
\* returned without an error
CtxErr(outcome) == outcome \in {"ctxAfter", "ctxSilent"}

\* mutant: the context is not consulted after the statement
execQueryAndCheck_NoCtxCheck(outcome, affected, errOnNoAffectedRows) ==
    IF outcome = "driverErr" THEN ErrDriver
    ELSE IF affected # 1 THEN errOnNoAffectedRows
    ELSE ErrNil

execQueryAndCheck(outcome, affected, errOnNoAffectedRows) ==
    IF outcome = "driverErr" THEN ErrDriver
    ELSE IF outcome \in {"ctxAfter", "ctxSilent"} THEN ErrCtx
    ELSE IF affected # 1 THEN errOnNoAffectedRows
    ELSE ErrNil

\* DBManager.NewLock with a valid key
NewLock(h, key) ==
    /\ hkey[h] = NoKey
    /\ rows' = [rows EXCEPT ![key] = initLock(@)]
    /\ hkey' = [hkey EXCEPT ![h] = key]
    /\ ret' = Idle
    /\ UNCHANGED <<now, lockOwner, tx, httl, htoken, holding>>

\* len(key): the number of bytes of the string
len(key) == key.ascii + 2 * key.wide

\* the checks NewLock makes on the key before it executes the statement
validateKey(key) ==
    IF len(key) = 0 THEN ErrKeyEmpty
    ELSE IF len(key) > MaxKeyLen THEN ErrKeyTooLong
    ELSE ErrNil

\* DBManager.NewLock with any key string; ret records the key, the error and
\* the rows the statement affected (NoResult when none was executed)
NewLockWithKey(h, key) ==
    /\ hkey[h] = NoKey
    /\ IF validateKey(key) # ErrNil
         THEN /\ ret' = [op |-> "NewLock", h |-> h, tok |-> NoToken,
                         err |-> validateKey(key), pre |-> NoRow,
                         aff |-> NoResult, ctxErr |-> FALSE, key |-> key]
              /\ UNCHANGED <<rows, hkey>>
         ELSE /\ rows' = [rows EXCEPT ![key.row] = initLock(@)]
              /\ hkey' = [hkey EXCEPT ![h] = key.row]
              /\ ret' = [op |-> "NewLock", h |-> h, tok |-> NoToken,
                         err |-> ErrNil, pre |-> rows[key.row],
                         aff |-> IF rows[key.row].exists THEN 0 ELSE 1,
                         ctxErr |-> FALSE, key |-> key]
    /\ UNCHANGED <<now, lockOwner, tx, httl, htoken, holding>>

\* mutant: TTL and token are stored before the error is looked at
StoresToken_Always(err) == TRUE

\* AcquireWithStaticToken reaches the assignments of l.TTL and l.token
StoresToken(err) == err = ErrNil

AcquireWithStaticToken(h, ex, token, lockTTL, outcome) ==
    /\ hkey[h] # NoKey
    /\ \E aff \in {0, 1} :
         /\ ExecContext(h, ex, outcome,
                        acquireLockWhere(CurRow(h, ex), token, now),
                        acquireLockWhere(rows[hkey[h]], token, now),
                        acquireLockSet(CurRow(h, ex), lockTTL, token, now),
                        "acq", aff)
         /\ LET err == execQueryAndCheck(outcome, aff, ErrLockAlreadyAcquired) IN
            /\ httl' = IF StoresToken(err) THEN [httl EXCEPT ![h] = lockTTL] ELSE httl
            /\ htoken' = IF StoresToken(err) THEN [htoken EXCEPT ![h] = token] ELSE htoken
            /\ ret' = [op |-> "Acquire", h |-> h, tok |-> token, err |-> err,
                       pre |-> CurRow(h, ex),
                       aff |-> RowsAffected(outcome, aff), ctxErr |-> CtxErr(outcome)]
    /\ UNCHANGED <<now, hkey>>

Acquire(h, ex, lockTTL, outcome) ==
    AcquireWithStaticToken(h, ex, NewString(h), lockTTL, outcome)

Release(h, ex, outcome) ==
    /\ hkey[h] # NoKey
    /\ \E aff \in {0, 1} :
         /\ ExecContext(h, ex, outcome,
                        releaseLockWhere(CurRow(h, ex), htoken[h], now),
                        releaseLockWhere(rows[hkey[h]], htoken[h], now),
                        releaseLockSet(CurRow(h, ex)),
                        "rel", aff)
         /\ ret' = [op |-> "Release", h |-> h, tok |-> htoken[h],
                    err |-> execQueryAndCheck(outcome, aff, ErrLockAlreadyReleased),
                    pre |-> CurRow(h, ex),
                    aff |-> RowsAffected(outcome, aff), ctxErr |-> CtxErr(outcome)]
    /\ UNCHANGED <<now, hkey, httl, htoken>>

Extend(h, ex, outcome) ==
    /\ hkey[h] # NoKey
    /\ \E aff \in {0, 1} :
         /\ ExecContext(h, ex, outcome,
                        extendLockWhere(CurRow(h, ex), htoken[h], now),
                        extendLockWhere(rows[hkey[h]], htoken[h], now),
                        extendLockSet(CurRow(h, ex), httl[h], now),
                        "ext", aff)
         /\ ret' = [op |-> "Extend", h |-> h, tok |-> htoken[h],
                    err |-> execQueryAndCheck(outcome, aff, ErrLockAlreadyReleased),
                    pre |-> CurRow(h, ex),
                    aff |-> RowsAffected(outcome, aff), ctxErr |-> CtxErr(outcome)]
    /\ UNCHANGED <<now, hkey, httl, htoken>>

\* mutant: Token never shows the stored token
Token_Empty(h) == NoToken

Token(h) == htoken[h]

\* ---------------------------------------------------------------- DoInTx
\* A row version, committed or written by an open transaction, has expired.
SomeLeaseOver(t) ==
    \/ \E k \in Keys : rows[k].expire # NULL /\ rows[k].expire < t
    \/ \E h \in Handles : tx[h].dirty /\ tx[h].row.expire # NULL /\ tx[h].row.expire < t

Clock ==
    /\ Tick
    /\ lapsed' = (lapsed \/ SomeLeaseOver(now + 1))
    /\ UNCHANGED <<procvars, ticker, calls, retryvars, sql>>

\* mutant: a deferred function without recover(): when fn panics err is
\* still nil, so the transaction is committed
Deferred_NoRecover(res) == IF res \in {ErrNil, "panic"} THEN "commit" ELSE "rollback"

\* defer func() { if p := recover(); p != nil { rollback; panic(p) }
\*                if err != nil { rollback; return }
\*                commit }()
Deferred(res) == IF res = ErrNil THEN "commit" ELSE "rollback"

\* mutant: the error of tx.Commit() is dropped
CommitResult_Dropped(ok) == ErrNil

\* if err = tx.Commit(); err != nil { err = fmt.Errorf("commit tx: %w", err) }
CommitResult(ok) == IF ok THEN ErrNil ELSE ErrCommit

\* errors.Unwrap: the cause inside an error made by fmt.Errorf("...: %w", err)
Unwrap(err) == IF err \in {ErrBegin, ErrCommit} THEN ErrDriver ELSE ErrNil

\* DoInTx(ctx, dbConn, func(tx) { return lock.Acquire(ctx, tx, lockTTL) }):
\* BeginTx, then fn(tx).  A nil error leads to the commit, any other to the
\* rollback; the error is what DoInTx will return.
DoInTxAcquire(h, lockTTL) ==
    /\ pc[h] = "idle" /\ out[h] = "none"
    /\ Acquire(h, "tx", lockTTL, "ok")
    /\ pc' = [pc EXCEPT ![h] = Deferred(ret'.err)]
    /\ out' = [out EXCEPT ![h] = ret'.err]
    /\ UNCHANGED <<lapsed, sql, retryvars, ticker, calls, ext, extErr, fnRes, callerDone, childDone>>

\* DoInTxWithOpts is called: dbConn.BeginTx(ctx, txOpts); a failure is
\* returned as fmt.Errorf("begin tx: %w", err) and nothing else is done
DoInTxWithOpts(h, beginOk) ==
    /\ pc[h] = "idle" /\ out[h] = "none" /\ hkey[h] # NoKey
    /\ pc' = [pc EXCEPT ![h] = IF beginOk THEN "tx" ELSE "idle"]
    /\ out' = [out EXCEPT ![h] = IF beginOk THEN "none" ELSE ErrBegin]
    /\ calls' = [calls EXCEPT ![h].begin = @ + 1]
    /\ UNCHANGED <<dbvars, lapsed, sql, retryvars, ticker, ext, extErr, fnRes, callerDone, childDone>>

\* return fn(tx), fn being one call of the lock API on tx, whose error fn
\* returns unless it panics after the call
DoInTxFn(h, op, lockTTL, outcome, panics) ==
    /\ pc[h] = "tx"
    /\ CASE op = "Acquire" -> Acquire(h, "tx", lockTTL, outcome)
         [] op = "Release" -> Release(h, "tx", outcome)
         [] op = "Extend" -> Extend(h, "tx", outcome)
    /\ LET res == IF panics THEN "panic" ELSE ret'.err IN
       /\ fnRes' = [fnRes EXCEPT ![h] = res]
       /\ pc' = [pc EXCEPT ![h] = Deferred(res)]
       /\ out' = [out EXCEPT ![h] = res]
    /\ calls' = [calls EXCEPT ![h].fn = @ + 1]
    /\ UNCHANGED <<lapsed, sql, retryvars, ticker, ext, extErr, callerDone, childDone>>

\* return fn(tx), fn executing no statement and returning nil or an error of
\* its own, or panicking
DoInTxFnEnds(h, res) ==
    /\ pc[h] = "tx"
    /\ fnRes' = [fnRes EXCEPT ![h] = res]
    /\ pc' = [pc EXCEPT ![h] = Deferred(res)]
    /\ out' = [out EXCEPT ![h] = res]
    /\ calls' = [calls EXCEPT ![h].fn = @ + 1]
    /\ UNCHANGED <<dbvars, lapsed, sql, retryvars, ticker, ext, extErr, callerDone, childDone>>

\* if err = tx.Commit(); err != nil { err = fmt.Errorf("commit tx: %w", err) }
DoInTxCommit(h, ok) ==
    /\ pc[h] = "commit"
    /\ IF tx[h].dirty THEN EndTx(h, ok)
                      ELSE UNCHANGED <<tx, lockOwner, rows, holding>>
    /\ ret' = Idle
    /\ pc' = [pc EXCEPT ![h] = "idle"]
    /\ out' = [out EXCEPT ![h] = CommitResult(ok)]
    /\ calls' = [calls EXCEPT ![h].commit = @ + 1, ![h].committed = ok]
    /\ UNCHANGED <<now, hkey, httl, htoken, lapsed, sql, retryvars, ticker, ext, extErr, fnRes,
                   callerDone, childDone>>

\* _ = tx.Rollback(), after an error of fn or, before panic(p), after its panic
DoInTxRollback(h) ==
    /\ pc[h] = "rollback"
    /\ IF tx[h].dirty THEN EndTx(h, FALSE)
                      ELSE UNCHANGED <<tx, lockOwner, rows, holding>>
    /\ ret' = Idle
    /\ pc' = [pc EXCEPT ![h] = "idle"]
    /\ calls' = [calls EXCEPT ![h].rollback = @ + 1]
    /\ UNCHANGED <<now, hkey, httl, htoken, lapsed, sql, retryvars, ticker, out, ext, extErr, fnRes,
                   callerDone, childDone>>

\* --------------------------------------------------------- DoExclusively
\* ctx.Err() != nil for the context passed to fn (newCtx, a child of ctx)
NewCtxDone(h) == callerDone[h] \/ childDone[h]

\* What a statement run under ctx can meet: with ctx live the driver executes
\* it or fails; with ctx done it never reports success.
CtxOutcomes(done) ==
    IF done THEN {"driverErr", "ctxAfter", "ctxSilent"} ELSE {"ok", "driverErr"}

\* mutant: every extension error cancels the function's context
LeaseLost_AnyError(err) == err # ErrNil

\* errors.Is(extendLockErr, ErrLockAlreadyReleased)
LeaseLost(err) == err = ErrLockAlreadyReleased

\* mutant: the deferred function does not wait for the extension goroutine
ExtensionExited_NoWait(h) == TRUE

\* <-periodicalExtensionExit returns: the goroutine has closed the channel
ExtensionExited(h) == ext[h] = "exited"

\* the caller's ctx is cancelled or reaches its deadline
CancelCtx(h) ==
    /\ pc[h] \in {"acquire", "fn"}
    /\ ~callerDone[h]
    /\ callerDone' = [callerDone EXCEPT ![h] = TRUE]
    /\ UNCHANGED <<dbvars, lapsed, sql, retryvars, ticker, calls, pc, out, ext, extErr, fnRes, childDone>>

\* DoExclusively is called: DoInTx(ctx, dbConn, ...) begins its transaction
DoExclusively(h, beginOk) ==
    /\ pc[h] = "idle" /\ hkey[h] # NoKey
    /\ pc' = [pc EXCEPT ![h] = IF beginOk /\ ~callerDone[h] THEN "acquire" ELSE "returned"]
    /\ out' = [out EXCEPT ![h] = IF beginOk /\ ~callerDone[h] THEN "none" ELSE ErrBegin]
    /\ UNCHANGED <<dbvars, lapsed, sql, retryvars, ticker, calls, ext, extErr, fnRes, callerDone, childDone>>

\* l.Acquire(ctx, tx, lockTTL) inside DoInTx; an error is rolled back and
\* returned by DoExclusively
DoExAcquire(h, lockTTL, outcome) ==
    /\ pc[h] = "acquire"
    /\ outcome \in CtxOutcomes(callerDone[h])
    /\ Acquire(h, "tx", lockTTL, outcome)
    /\ pc' = [pc EXCEPT ![h] = IF ret'.err = ErrNil THEN "acqCommit" ELSE "acqRollback"]
    /\ out' = [out EXCEPT ![h] = IF ret'.err = ErrNil THEN "none" ELSE ret'.err]
    /\ UNCHANGED <<lapsed, sql, retryvars, ticker, calls, ext, extErr, fnRes, callerDone, childDone>>

DoExAcquireRollback(h) ==
    /\ pc[h] = "acqRollback"
    /\ IF tx[h].dirty THEN EndTx(h, FALSE)
                      ELSE UNCHANGED <<tx, lockOwner, rows, holding>>
    /\ ret' = Idle
    /\ pc' = [pc EXCEPT ![h] = "returned"]
    /\ UNCHANGED <<now, hkey, httl, htoken, lapsed, sql, retryvars, ticker, calls, out, ext, extErr, fnRes,
                   callerDone, childDone>>

\* the acquire transaction commits; then newCtx is derived, the extension
\* goroutine is started and fn(newCtx) is called
DoExAcquireCommit(h, ok) ==
    /\ pc[h] = "acqCommit"
    /\ EndTx(h, ok)
    /\ ret' = Idle
    /\ pc' = [pc EXCEPT ![h] = IF ok THEN "fn" ELSE "returned"]
    /\ out' = [out EXCEPT ![h] = IF ok THEN "none" ELSE ErrCommit]
    /\ ext' = [ext EXCEPT ![h] = IF ok THEN "select" ELSE @]
    /\ extErr' = [extErr EXCEPT ![h] = ErrNil]
    /\ childDone' = [childDone EXCEPT ![h] = FALSE]
    /\ calls' = [calls EXCEPT ![h].fn = IF ok THEN @ + 1 ELSE @]
    /\ UNCHANGED <<now, hkey, httl, htoken, lapsed, sql, retryvars, fnRes, callerDone>>

\* fn returns nil or an error, or panics: the deferred functions start with
\* close(periodicalExtensionDone)
FnEnds(h, how) ==
    /\ pc[h] = "fn"
    /\ fnRes' = [fnRes EXCEPT ![h] = how]
    /\ pc' = [pc EXCEPT ![h] = "join"]
    /\ UNCHANGED <<dbvars, lapsed, sql, retryvars, ticker, calls, out, ext, extErr, callerDone, childDone>>

\* select takes case <-periodicalExtensionDone: the goroutine returns
ExtensionStops(h) ==
    /\ ext[h] = "select" /\ pc[h] = "join"
    /\ ext' = [ext EXCEPT ![h] = "exited"]
    /\ UNCHANGED <<dbvars, lapsed, sql, retryvars, ticker, calls, pc, out, extErr, fnRes, callerDone, childDone>>

\* select takes case <-ticker.C: DoInTx(ctx, dbConn, ...) begins; when both
\* channels are ready select may take either
ExtensionTick(h, beginOk) ==
    /\ ext[h] = "select" /\ pc[h] \in {"fn", "join"}
    /\ ext' = [ext EXCEPT ![h] = IF beginOk /\ ~callerDone[h] THEN "extend" ELSE @]
    /\ extErr' = [extErr EXCEPT ![h] = IF beginOk /\ ~callerDone[h] THEN @ ELSE ErrBegin]
    /\ calls' = [calls EXCEPT ![h].extFault = @ \/ ~(beginOk /\ ~callerDone[h])]
    /\ UNCHANGED <<dbvars, lapsed, sql, retryvars, pc, out, fnRes, callerDone, childDone>>

\* l.Extend(ctx, tx) inside DoInTx
ExtensionExtend(h, outcome) ==
    /\ ext[h] = "extend"
    /\ outcome \in CtxOutcomes(callerDone[h])
    /\ Extend(h, "tx", outcome)
    /\ ext' = [ext EXCEPT ![h] = IF ret'.err = ErrNil THEN "extCommit" ELSE "extRollback"]
    /\ extErr' = [extErr EXCEPT ![h] = ret'.err]
    /\ calls' = [calls EXCEPT ![h].extFault =
                    @ \/ ret'.err \notin {ErrNil, ErrLockAlreadyReleased}]
    /\ UNCHANGED <<lapsed, sql, retryvars, ticker, pc, out, fnRes, callerDone, childDone>>

\* the extend transaction commits, or its commit fails; the loop goes on
ExtensionCommit(h, ok) ==
    /\ ext[h] = "extCommit"
    /\ EndTx(h, ok)
    /\ ret' = Idle
    /\ ext' = [ext EXCEPT ![h] = "select"]
    /\ extErr' = [extErr EXCEPT ![h] = IF ok THEN ErrNil ELSE ErrCommit]
    /\ calls' = [calls EXCEPT ![h].extFault = @ \/ ~ok]
    /\ UNCHANGED <<now, hkey, httl, htoken, lapsed, sql, retryvars, ticker, pc, out, fnRes,
                   callerDone, childDone>>

\* Extend failed: rollback, the error is logged, and if it is
\* ErrLockAlreadyReleased newCtxCancel() is called and the goroutine returns
ExtensionFailed(h) ==
    /\ ext[h] = "extRollback"
    /\ IF tx[h].dirty THEN EndTx(h, FALSE)
                      ELSE UNCHANGED <<tx, lockOwner, rows, holding>>
    /\ ret' = Idle
    /\ ext' = [ext EXCEPT ![h] = IF LeaseLost(extErr[h]) THEN "exited" ELSE "select"]
    /\ childDone' = [childDone EXCEPT ![h] = @ \/ LeaseLost(extErr[h])]
    /\ UNCHANGED <<now, hkey, httl, htoken, lapsed, sql, retryvars, ticker, calls, pc, out, extErr, fnRes,
                   callerDone>>

\* mutant: an error of the extension goroutine replaces a nil result of fn
DoExResult_OrExtendErr(h) ==
    IF fnRes[h] = ErrNil /\ extErr[h] # ErrNil THEN extErr[h] ELSE fnRes[h]

\* return fn(newCtx): the deferred functions assign nothing to the result
DoExResult(h) == fnRes[h]

\* mutant: the release is an ordinary statement after fn(newCtx), which a
\* panic of fn skips
RunsRelease_UnlessPanic(h) == fnRes[h] # "panic"

\* defer func() { ... DoInTx(releaseCtx, dbConn, ... l.Release ...) }(): a
\* deferred function runs however the surrounding function is left
RunsRelease(h) == TRUE

\* <-periodicalExtensionExit returns, the deferred newCtxCancel() runs, and
\* the deferred release begins its transaction under releaseCtx
DoExJoined(h, beginOk) ==
    /\ pc[h] = "join"
    /\ ExtensionExited(h)
    /\ childDone' = [childDone EXCEPT ![h] = TRUE]
    /\ pc' = [pc EXCEPT ![h] = IF beginOk /\ RunsRelease(h) THEN "release" ELSE "returned"]
    /\ out' = [out EXCEPT ![h] = IF beginOk /\ RunsRelease(h) THEN @ ELSE DoExResult(h)]
    /\ calls' = [calls EXCEPT ![h].release = IF RunsRelease(h) THEN @ + 1 ELSE @]
    /\ UNCHANGED <<dbvars, lapsed, sql, retryvars, ticker, ext, extErr, fnRes, callerDone>>

\* l.Release(releaseCtx, tx) inside DoInTx; releaseCtx may reach its deadline
DoExRelease(h, outcome) ==
    /\ pc[h] = "release"
    /\ Release(h, "tx", outcome)
    /\ pc' = [pc EXCEPT ![h] = "relEnd"]
    /\ UNCHANGED <<lapsed, sql, retryvars, ticker, calls, out, ext, extErr, fnRes, callerDone, childDone>>

\* the release transaction is committed (the commit may fail) after a nil
\* error and rolled back otherwise; an error is logged; DoExclusively
\* returns fn's result
DoExReturns(h, ok) ==
    /\ pc[h] = "relEnd"
    /\ IF tx[h].dirty THEN EndTx(h, ok)
                      ELSE UNCHANGED <<tx, lockOwner, rows, holding>>
    /\ ret' = Idle
    /\ pc' = [pc EXCEPT ![h] = "returned"]
    /\ out' = [out EXCEPT ![h] = DoExResult(h)]
    /\ UNCHANGED <<now, hkey, httl, htoken, lapsed, sql, retryvars, ticker, calls, ext, extErr, fnRes,
                   callerDone, childDone>>

\* ------------------------------------------------------ time.Ticker
\* time.NewTicker(periodicExtendInterval) in the goroutine just started
NewTicker(h, interval) ==
    ticker' = [ticker EXCEPT ![h] =
                  [interval |-> interval, start |-> now, due |-> now + interval]]

\* a value arrives on ticker.C, and the next one is due an interval later
TickerFires(h) ==
    /\ ticker[h].interval > 0
    /\ ticker[h].due = now
    /\ ticker' = [ticker EXCEPT ![h].due = @ + ticker[h].interval]

\* The clock of a run in which goroutines and statements take no time: it
\* does not pass the instant a tick is due before the goroutine has taken
\* it, nor advance in the middle of an extension attempt.
PromptClock ==
    /\ \A h \in Handles :
          /\ pc[h] = "fn" /\ ext[h] = "select" => now < ticker[h].due
          /\ ext[h] \notin {"extend", "extCommit", "extRollback"}
    /\ Tick
    /\ UNCHANGED <<lapsed, sql, retryvars, procvars, ticker, calls>>

\* ------------------------------------------------- retryable errors
\* mutant: the transaction errors of dbrutil have no Unwrap method
HasUnwrap_FmtOnly(layer) == layer = FmtW

\* the layer's type has a method Unwrap() error
HasUnwrap(layer) == layer \in {FmtW, TxBeginError, TxCommitError, TxRollbackError}

\* errors.Unwrap(e)
errorsUnwrap(e) ==
    IF e = NilError THEN NilError
    ELSE IF HasUnwrap(Head(e)) THEN Tail(e)
    ELSE NilError

\* mutant: the mysql predicate takes every error for transient
Retryable_MySQLAny(p, e) ==
    CASE p = "postgres" ->
           /\ Head(e).type = "*pq.Error"
           /\ Head(e).code \in {"deadlock_detected", "serialization_failure"}
      [] p = "mysql" -> TRUE
      [] OTHER -> FALSE

\* The predicates applied to a non-nil error: a type assertion on the error
\* itself, then its code.
Retryable(p, e) ==
    CASE p = "postgres" ->
           /\ Head(e).type = "*pq.Error"
           /\ Head(e).code \in {"deadlock_detected", "serialization_failure"}
      [] p = "mysql" ->
           \/ /\ Head(e).type = "*mysql.MySQLError"
              /\ Head(e).code \in {"1213", "1205"}
           \/ e = <<MySQLInvalidConn>>
      [] OTHER -> FALSE

isRetryableNoDriver(e) == FALSE

\* mutant: a registration replaces the earlier ones
RECURSIVE RegisteredFunc_LastOnly(_, _)
RegisteredFunc_LastOnly(fs, e) ==
    IF e = NilError THEN FALSE
    ELSE IF Retryable(fs[Len(fs)], e) THEN TRUE
    ELSE RegisteredFunc_LastOnly(fs, errorsUnwrap(e))

\* The closure RegisterIsRetryableFunc stores after the predicates fs were
\* registered in this order: prev is the closure stored for the earlier ones.
RECURSIVE RegisteredFunc(_, _)
RegisteredFunc(fs, e) ==
    IF e = NilError THEN FALSE
    ELSE IF Len(fs) > 1 /\ RegisteredFunc(SubSeq(fs, 1, Len(fs) - 1), e) THEN TRUE
    ELSE IF Retryable(fs[Len(fs)], e) THEN TRUE
    ELSE RegisteredFunc(fs, errorsUnwrap(e))

\* GetIsRetryable(d) applied to e
GetIsRetryable(d, e) ==
    IF retryableErrors[d] # <<>> THEN RegisteredFunc(retryableErrors[d], e)
    ELSE isRetryableNoDriver(e)

\* One call of a registered predicate: its place in the registration order,
\* the error it was given and what it returned.
Call(fs, e) == [i |-> Len(fs), e |-> e, r |-> Retryable(fs[Len(fs)], e)]

\* the calls end with one that returned true
Hit(cs) == cs # <<>> /\ cs[Len(cs)].r

\* mutant: the closure asks the new predicate before the earlier ones
RECURSIVE RegisteredCalls_NewFirst(_, _)
RegisteredCalls_NewFirst(fs, e) ==
    IF e = NilError THEN <<>>
    ELSE LET own == <<Call(fs, e)>> IN
         IF Hit(own) THEN own
         ELSE LET prev == IF Len(fs) > 1
                            THEN RegisteredCalls_NewFirst(SubSeq(fs, 1, Len(fs) - 1), e)
                            ELSE <<>>
              IN  IF Hit(prev) THEN own \o prev
                  ELSE own \o prev \o RegisteredCalls_NewFirst(fs, errorsUnwrap(e))

\* The calls of registered predicates the closure RegisteredFunc(fs, _) makes
\* when applied to e, in the order it makes them.
RECURSIVE RegisteredCalls(_, _)
RegisteredCalls(fs, e) ==
    IF e = NilError THEN <<>>
    ELSE LET prev == IF Len(fs) > 1
                       THEN RegisteredCalls(SubSeq(fs, 1, Len(fs) - 1), e)
                       ELSE <<>>
         IN  IF Hit(prev) THEN prev
             ELSE LET own == prev \o <<Call(fs, e)>> IN
                  IF Hit(own) THEN own
                  ELSE own \o RegisteredCalls(fs, errorsUnwrap(e))

\* the calls of registered predicates GetIsRetryable(d) makes when applied to e
GetIsRetryableCalls(d, e) ==
    IF retryableErrors[d] # <<>> THEN RegisteredCalls(retryableErrors[d], e)
    ELSE <<>>

\* registrations made so far, all drivers together
Registrations ==
    LET RECURSIVE Sum(_)
        Sum(D) == IF D = {} THEN 0
                  ELSE LET d == CHOOSE x \in D : TRUE
                       IN  Len(retryableErrors[d]) + Sum(D \ {d})
    IN  Sum(Drivers)

RegisterIsRetryableFunc(d, retryable) ==
    /\ Registrations < MaxRegs
    /\ retryableErrors' = [retryableErrors EXCEPT ![d] = Append(@, retryable)]
    /\ retry' = NoRetry
    /\ UNCHANGED <<dbvars, lapsed, sql, procvars, ticker, calls>>

\* isRetryable := GetIsRetryable(d); isRetryable(e)
IsRetryable(d, e) ==
    /\ retry' = [op |-> "check", d |-> d, err |-> e,
                 is |-> GetIsRetryable(d, e), rerun |-> FALSE,
                 called |-> GetIsRetryableCalls(d, e)]
    /\ UNCHANGED <<dbvars, lapsed, sql, procvars, ticker, calls, retryableErrors>>

\* The error just classified is wrapped in one more layer and classified again.
Wrap(w) ==
    /\ retry.op \in {"check", "wrap"}
    /\ retry.err # NilError
    /\ Len(retry.err) <= MaxWrap
    /\ retry' = [op |-> "wrap", d |-> retry.d, err |-> <<w>> \o retry.err,
                 is |-> GetIsRetryable(retry.d, <<w>> \o retry.err), rerun |-> FALSE,
                 called |-> GetIsRetryableCalls(retry.d, <<w>> \o retry.err)]
    /\ UNCHANGED <<dbvars, lapsed, sql, procvars, ticker, calls, retryableErrors>>

\* retry.DoWithRetry(ctx, policy, GetIsRetryable(d), notify, fn): the first
\* call of fn returns e
DoWithRetry(d, e) ==
    /\ retry' = [op |-> "attempt", d |-> d, err |-> e,
                 is |-> GetIsRetryable(d, e), rerun |-> FALSE,
                 called |-> GetIsRetryableCalls(d, e)]
    /\ UNCHANGED <<dbvars, lapsed, sql, procvars, ticker, calls, retryableErrors>>

\* the loop calls fn again, its last error having been classified retryable
DoWithRetryAgain(e) ==
    /\ retry.op = "attempt"
    /\ retry.err # NilError /\ retry.is
    /\ retry' = [op |-> "attempt", d |-> retry.d, err |-> e,
                 is |-> GetIsRetryable(retry.d, e), rerun |-> TRUE,
                 called |-> GetIsRetryableCalls(retry.d, e)]
    /\ UNCHANGED <<dbvars, lapsed, sql, procvars, ticker, calls, retryableErrors>>

\* errors fn returns to the retry loop: nil, an error as a statement returns
\* it, or that error as DoInTx returns it for a failed begin or commit
FnErrors == {NilError} \cup {<<l>> : l \in Leaves} \cup {<<FmtW, l>> : l \in Leaves}

\* Registrations for one driver type, the other staying without any, then one
\* use of a classifier: a test classifies an error and wraps it further, or a
\* retry loop is run.
NextRetry ==
    \/ \E d \in Drivers, p \in Predicates :
          /\ \A o \in Drivers \ {d} : retryableErrors[o] = <<>>
          /\ RegisterIsRetryableFunc(d, p)
    \/ \E d \in Drivers, e \in {NilError} \cup {<<l>> : l \in Leaves} :
          retry = NoRetry /\ IsRetryable(d, e)
    \/ \E w \in Wrappers : Wrap(w)
    \/ \E d \in Drivers, e \in FnErrors : retry = NoRetry /\ DoWithRetry(d, e)
    \/ \E e \in FnErrors : DoWithRetryAgain(e)

SpecRetry == Init /\ [][NextRetry]_vars

\* ------------------------------------------------------- specification
\* Any number of callers use their handles directly on the connection pool:
\* every statement is its own transaction and the driver reports no error.
Next ==
    \/ Tick /\ UNCHANGED <<lapsed, sql, retryvars, ticker, calls, procvars>>
    \/ \E h \in Handles, k \in SpecKeys :
          NewLock(h, k) /\ UNCHANGED <<lapsed, sql, retryvars, ticker, calls, procvars>>
    \/ \E h \in Handles, ttl \in TTLs :
          Acquire(h, "conn", ttl, "ok") /\ UNCHANGED <<lapsed, sql, retryvars, ticker, calls, procvars>>
    \/ \E h \in Handles, t \in StaticTokens, ttl \in TTLs :
          AcquireWithStaticToken(h, "conn", t, ttl, "ok")
              /\ UNCHANGED <<lapsed, sql, retryvars, ticker, calls, procvars>>
    \/ \E h \in Handles :
          Release(h, "conn", "ok") /\ UNCHANGED <<lapsed, sql, retryvars, ticker, calls, procvars>>
    \/ \E h \in Handles :
          Extend(h, "conn", "ok") /\ UNCHANGED <<lapsed, sql, retryvars, ticker, calls, procvars>>

Spec == Init /\ [][Next]_vars

\* the lock TTL the callers of NewLockWithKey pass to Acquire
KeyTTL == 1

\* Callers create handles with key strings of any length and use them
\* directly on the connection pool, all with the same TTL.
NextKey ==
    \/ Tick /\ UNCHANGED <<lapsed, sql, retryvars, ticker, calls, procvars>>
    \/ \E h \in Handles, key \in KeyStrings :
          NewLockWithKey(h, key) /\ UNCHANGED <<lapsed, sql, retryvars, ticker, calls, procvars>>
    \/ \E h \in Handles :
          Acquire(h, "conn", KeyTTL, "ok") /\ UNCHANGED <<lapsed, sql, retryvars, ticker, calls, procvars>>
    \/ \E h \in Handles :
          Release(h, "conn", "ok") /\ UNCHANGED <<lapsed, sql, retryvars, ticker, calls, procvars>>
    \/ \E h \in Handles :
          Extend(h, "conn", "ok") /\ UNCHANGED <<lapsed, sql, retryvars, ticker, calls, procvars>>

SpecKey == Init /\ [][NextKey]_vars

\* The test "attempt to acquire lock with the same key many times
\* concurrently": every handle is created for the same fresh key, then each
\* caller runs one DoInTx(Acquire) of its own while the server clock runs.
NextRace ==
    \/ Clock
    \/ \E h \in Handles, k \in SpecKeys :
          /\ \A g \in Handles : pc[g] = "idle" /\ out[g] = "none"
          /\ NewLock(h, k) /\ UNCHANGED <<lapsed, sql, retryvars, ticker, calls, procvars>>
    \/ \E h \in Handles, ttl \in TTLs :
          /\ \A g \in Handles : hkey[g] # NoKey
          /\ DoInTxAcquire(h, ttl)
    \/ \E h \in Handles : DoInTxCommit(h, TRUE)
    \/ \E h \in Handles : DoInTxRollback(h)

SpecRace == Init /\ [][NextRace]_vars

\* One caller runs DoExclusively on its handle while the
\* server clock runs, its context is cancelled and the driver fails at will;
\* one other caller acquires and releases the same key directly.
Supervised == {1}

Competitors == {2}

NextDoEx ==
    \/ Tick /\ UNCHANGED <<lapsed, sql, retryvars, ticker, calls, procvars>>
    \/ \E h \in Supervised \cup Competitors, k \in SpecKeys :
          NewLock(h, k) /\ UNCHANGED <<lapsed, sql, retryvars, ticker, calls, procvars>>
    \/ \E h \in Competitors, ttl \in TTLs :
          Acquire(h, "conn", ttl, "ok") /\ UNCHANGED <<lapsed, sql, retryvars, ticker, calls, procvars>>
    \/ \E h \in Competitors :
          Release(h, "conn", "ok") /\ UNCHANGED <<lapsed, sql, retryvars, ticker, calls, procvars>>
    \/ \E h \in Supervised : CancelCtx(h)
    \/ \E h \in Supervised, b \in BOOLEAN : DoExclusively(h, b)
    \/ \E h \in Supervised, ttl \in TTLs, o \in Outcomes : DoExAcquire(h, ttl, o)
    \/ \E h \in Supervised : DoExAcquireRollback(h)
    \/ \E h \in Supervised, ok \in BOOLEAN :
          DoExAcquireCommit(h, ok) /\ UNCHANGED ticker
    \/ \E h \in Supervised, how \in {"nil", "error", "panic"} : FnEnds(h, how)
    \/ \E h \in Supervised : ExtensionStops(h)
    \/ \E h \in Supervised, b \in BOOLEAN :
          ExtensionTick(h, b) /\ UNCHANGED ticker
    \/ \E h \in Supervised, o \in Outcomes : ExtensionExtend(h, o)
    \/ \E h \in Supervised, ok \in BOOLEAN : ExtensionCommit(h, ok)
    \/ \E h \in Supervised : ExtensionFailed(h)
    \/ \E h \in Supervised, b \in BOOLEAN : DoExJoined(h, b)
    \/ \E h \in Supervised, o \in Outcomes : DoExRelease(h, o)
    \/ \E h \in Supervised, ok \in BOOLEAN : DoExReturns(h, ok)

SpecDoEx == Init /\ [][NextDoEx]_vars

\* ================================================================ claims
\* The test "lock is acquired but periodic extension interval is too long",
\* and its variations: one caller runs DoExclusively with a TTL and an
\* extension interval of its choice on a clock that runs promptly, its
\* extension attempts may fail in the driver, its context may be cancelled
\* while fn runs, and one other caller acquires and releases the key directly.
NextLapse ==
    \/ PromptClock
    \/ \E h \in Supervised \cup Competitors, k \in SpecKeys :
          NewLock(h, k) /\ UNCHANGED <<lapsed, sql, retryvars, procvars, ticker, calls>>
    \/ \E h \in Competitors, ttl \in TTLs :
          Acquire(h, "conn", ttl, "ok") /\ UNCHANGED <<lapsed, sql, retryvars, procvars, ticker, calls>>
    \/ \E h \in Competitors :
          Release(h, "conn", "ok") /\ UNCHANGED <<lapsed, sql, retryvars, procvars, ticker, calls>>
    \/ \E h \in Supervised : pc[h] = "fn" /\ CancelCtx(h)
    \/ \E h \in Supervised : DoExclusively(h, TRUE)
    \/ \E h \in Supervised, ttl \in TTLs : DoExAcquire(h, ttl, "ok")
    \/ \E h \in Supervised : DoExAcquireRollback(h)
    \/ \E h \in Supervised, iv \in Intervals :
          DoExAcquireCommit(h, TRUE) /\ NewTicker(h, iv)
    \/ \E h \in Supervised : FnEnds(h, "error")
    \/ \E h \in Supervised : ExtensionStops(h)
    \/ \E h \in Supervised, b \in BOOLEAN : ExtensionTick(h, b) /\ TickerFires(h)
    \/ \E h \in Supervised, o \in Outcomes : ExtensionExtend(h, o)
    \/ \E h \in Supervised, ok \in BOOLEAN : ExtensionCommit(h, ok)
    \/ \E h \in Supervised : ExtensionFailed(h)
    \/ \E h \in Supervised : DoExJoined(h, TRUE)
    \/ \E h \in Supervised : DoExRelease(h, "ok")
    \/ \E h \in Supervised : DoExReturns(h, TRUE)

SpecLapse == Init /\ [][NextLapse]_vars

\* The test "lock is acquired with successful periodic extensions": once the
\* handles are made, every caller runs DoExclusively on the same key, with a TTL and an extension
\* interval of its choice, on a database that does not fail and a clock on
\* which neither the goroutines nor the transactions take time.
PairClock ==
    /\ \A h \in Handles : pc[h] \notin {"acquire", "acqCommit", "acqRollback"}
    /\ PromptClock

NextPair ==
    \/ PairClock
    \/ \E h \in Handles, k \in SpecKeys :
          NewLock(h, k) /\ UNCHANGED <<lapsed, sql, retryvars, procvars, ticker, calls>>
    \/ \E h \in Handles :
          /\ \A g \in Handles : hkey[g] # NoKey
          /\ DoExclusively(h, TRUE)
    \/ \E h \in Handles, ttl \in TTLs : DoExAcquire(h, ttl, "ok")
    \/ \E h \in Handles : DoExAcquireRollback(h)
    \/ \E h \in Handles, iv \in Intervals :
          DoExAcquireCommit(h, TRUE) /\ NewTicker(h, iv)
    \/ \E h \in Handles : FnEnds(h, "nil")
    \/ \E h \in Handles : ExtensionStops(h)
    \/ \E h \in Handles : ExtensionTick(h, TRUE) /\ TickerFires(h)
    \/ \E h \in Handles : ExtensionExtend(h, "ok")
    \/ \E h \in Handles : ExtensionCommit(h, TRUE)
    \/ \E h \in Handles : ExtensionFailed(h)
    \/ \E h \in Handles : DoExJoined(h, TRUE)
    \/ \E h \in Handles : DoExRelease(h, "ok")
    \/ \E h \in Handles : DoExReturns(h, TRUE)

SpecPair == Init /\ [][NextPair]_vars

\* Callers run DoInTx with a function that makes one call of the lock API,
\* or none, and returns nil or an error, or panics; begin, the statement and
\* commit may fail in the driver.
FnResults == {ErrNil, "fn error", "panic"}

NextTx ==
    \/ Clock
    \/ \E h \in Handles, k \in SpecKeys :
          NewLock(h, k) /\ UNCHANGED <<lapsed, sql, retryvars, procvars, ticker, calls>>
    \/ \E h \in Handles, b \in BOOLEAN : DoInTxWithOpts(h, b)
    \/ \E h \in Handles, op \in {"Acquire", "Release", "Extend"}, ttl \in TTLs,
          o \in {"ok", "driverErr"}, p \in BOOLEAN : DoInTxFn(h, op, ttl, o, p)
    \/ \E h \in Handles, res \in FnResults : DoInTxFnEnds(h, res)
    \/ \E h \in Handles, ok \in BOOLEAN : DoInTxCommit(h, ok)
    \/ \E h \in Handles : DoInTxRollback(h)

SpecTx == Init /\ [][NextTx]_vars

RetRow == rows[hkey[ret.h]]
Returned(op) == ret.op = op
Holders(k) == {h \in Handles : hkey[h] = k /\ holding[h]}

\* C1 as stated: at every instant at most one handle is a holder of a key
\* (its last successful acquire followed neither by its own release nor by
\* expiry of the lease).
C1_AtMostOneHolder == \A k \in Keys : Cardinality(Holders(k)) <= 1

\* C1 amended: at every instant all holders of a key hold it under one token,
\* the token of the key's unexpired row; two handles are holders together only
\* when both acquired with the same static token.
C1_HoldersShareToken ==
    /\ \A h \in Handles : holding[h] =>
          /\ Held(rows[hkey[h]], now)
          /\ rows[hkey[h]].token = htoken[h]
    /\ \A g, h \in Handles : g # h /\ hkey[g] = hkey[h] /\ holding[g] /\ holding[h]
          => htoken[g] = htoken[h] /\ htoken[g] \in StaticTokens

C1_Witness ==
    \E g, h \in Handles : g # h /\ hkey[g] = hkey[h] /\ holding[g] /\ holding[h]

\* C3: while a key is held under token T (expire_at >= now, the instant
\* expire_at = now included), an acquire presenting another token returns
\* ErrLockAlreadyAcquired and leaves the row as it was.
C3_HeldRefusesOtherToken ==
    Returned("Acquire") /\ Held(ret.pre, now) /\ ret.tok # ret.pre.token
        => ret.err = ErrLockAlreadyAcquired /\ RetRow = ret.pre

\* the holder itself acquires again, at the last instant of its lease
C3_Witness ==
    /\ Returned("Acquire") /\ ret.err = ErrLockAlreadyAcquired
    /\ ret.pre.expire = now /\ ret.pre.token = htoken[ret.h] /\ holding[ret.h]

\* C4: Release and Extend through a handle whose token is not the row's
\* return ErrLockAlreadyReleased and leave the row as it was.
C4_StaleHandleCannotDisturb ==
    (Returned("Release") \/ Returned("Extend")) /\ ret.tok # ret.pre.token
        => ret.err = ErrLockAlreadyReleased /\ RetRow = ret.pre

\* a handle that held the key before releases while another token holds it
C4_Witness ==
    /\ Returned("Release") /\ ret.tok # NoToken /\ ret.tok # ret.pre.token
    /\ Held(ret.pre, now) /\ ret.err = ErrLockAlreadyReleased
    /\ \E g \in Handles : g # ret.h /\ holding[g]

C6_ExpiredLeaseIsReleased ==
    /\ Returned("Release") \/ Returned("Extend")
    /\ ret.pre.expire # NULL /\ ret.pre.expire < now
    => ret.err = ErrLockAlreadyReleased /\ RetRow = ret.pre

C6_Witness ==
    /\ Returned("Release") /\ ret.err = ErrLockAlreadyReleased
    /\ ret.tok # NoToken /\ ret.tok = ret.pre.token
    /\ ret.pre.expire # NULL /\ ret.pre.expire < now

\* C7: a successful Release sets expire_at to NULL, and an Acquire on a row
\* whose expire_at is NULL succeeds, whoever calls it.
C7_ReleaseFreesAtOnce ==
    /\ Returned("Release") /\ ret.err = ErrNil =>
          /\ RetRow = [ret.pre EXCEPT !.expire = NULL]
          /\ Free(RetRow, now)
    /\ Returned("Acquire") /\ ret.pre.exists /\ ret.pre.expire = NULL =>
          /\ ret.err = ErrNil
          /\ Held(RetRow, now) /\ RetRow.token = ret.tok

\* the releasing handle acquires again at the instant of its release
C7_Witness ==
    /\ Returned("Acquire") /\ ret.err = ErrNil
    /\ ret.pre.expire = NULL /\ ret.pre.token # NoToken
    /\ ret.pre.token # ret.tok /\ ret.pre.token \in FreshTokens(ret.h)

\* C8: a successful Extend sets expire_at to now plus the TTL of the handle's
\* last successful acquire and changes nothing else, so the key stays held
\* under the same token for a full TTL more, during which an Acquire with
\* another token returns ErrLockAlreadyAcquired.
C8_ExtendRenewsLease ==
    /\ Returned("Extend") /\ ret.err = ErrNil =>
          /\ RetRow = [ret.pre EXCEPT !.expire = now + httl[ret.h]]
          /\ httl[ret.h] \in TTLs
          /\ \A t \in now..(now + httl[ret.h]) : Held(RetRow, t)
    /\ Returned("Acquire") /\ ret.tok # ret.pre.token
          /\ ret.pre.expire # NULL /\ now <= ret.pre.expire
          => ret.err = ErrLockAlreadyAcquired

\* an extend that moved expire_at forward
C8_Witness ==
    /\ Returned("Extend") /\ ret.err = ErrNil
    /\ RetRow.expire > ret.pre.expire /\ holding[ret.h]

RaceOver == \A h \in Handles : pc[h] = "idle" /\ out[h] # "none"
Winners == {h \in Handles : out[h] = ErrNil}

\* C2 as stated: of the concurrent Acquires exactly one succeeds and every
\* other one returns ErrLockAlreadyAcquired.
C2_ExactlyOneWinner ==
    RaceOver =>
        /\ Cardinality(Winners) = 1
        /\ \A h \in Handles \ Winners : out[h] = ErrLockAlreadyAcquired

\* C2 amended: at least one Acquire succeeds and every other result is
\* ErrLockAlreadyAcquired; an Acquire succeeds after another one only when
\* it finds the earlier winner's lease expired (expire_at < now); so exactly
\* one succeeds when no lease expires while the Acquires run.
C2_OneWinnerPerLease ==
    /\ RaceOver =>
          /\ Cardinality(Winners) >= 1
          /\ \A h \in Handles \ Winners : out[h] = ErrLockAlreadyAcquired
          /\ ~lapsed => Cardinality(Winners) = 1
    /\ Returned("Acquire") /\ ret.err = ErrNil /\ ret.pre.token # NoToken
          => ret.pre.expire # NULL /\ ret.pre.expire < now

\* all Acquires ran within the winner's lease: one won, the others were refused
C2_Witness ==
    /\ RaceOver /\ ~lapsed /\ Cardinality(Winners) = 1
    /\ \E h \in Handles : out[h] = ErrLockAlreadyAcquired

\* ---- C9: in DoExclusively no Extend is started once the final Release has
\* begun: whenever the release transaction is open (or has ended), the
\* extension goroutine has exited, whether fn returned nil, an error or
\* panicked, and whether the goroutine left early or was still in its loop.
C9_NoExtendAfterReleaseBegins ==
    \A h \in Supervised :
        pc[h] \in {"release", "relEnd"} => ext[h] = "exited"

\* fn panicked while the goroutine was still looping (its last attempt failed
\* at commit, which does not end the loop); the release transaction is open.
C9_Witness ==
    \E h \in Supervised :
        /\ pc[h] = "release" /\ fnRes[h] = "panic"
        /\ ext[h] = "exited" /\ extErr[h] = ErrCommit

\* ---- C10: while fn is running, the context it was given is done only if
\* the caller's context is done or an extension attempt returned
\* ErrLockAlreadyReleased; a driver, begin or commit failure of an extension
\* attempt leaves it live.
C10_FnCtxCancelledOnlyOnLeaseLost ==
    \A h \in Supervised :
        pc[h] = "fn" /\ NewCtxDone(h) =>
            callerDone[h] \/ extErr[h] = ErrLockAlreadyReleased

\* an extension attempt failed with a driver error, the goroutine went back
\* to its loop, and fn still runs under a live context
C10_Witness ==
    \E h \in Supervised :
        /\ pc[h] = "fn" /\ ext[h] = "select"
        /\ extErr[h] \in {ErrDriver, ErrBegin, ErrCommit}
        /\ ~NewCtxDone(h)

\* the lease of the row the call saw was over: expire_at < NOW()
Expired(row, t) == row.expire # NULL /\ row.expire < t

\* the instant ttl + extendInterval after the acquisition by h's DoExclusively
LapseDeadline(h) == ticker[h].start + httl[h] + ticker[h].interval

C12_ReleaseAttemptedOnceAfterFn ==
    \A h \in Supervised :
        /\ calls[h].fn <= 1 /\ calls[h].release <= calls[h].fn
        /\ calls[h].release = 1 => fnRes[h] # "none" /\ pc[h] \notin {"fn", "join"}
        /\ pc[h] = "returned" /\ calls[h].fn = 1 => calls[h].release = 1
        /\ pc[h] = "returned" /\ calls[h].fn = 0 =>
              /\ out[h] \notin {ErrNil, "none"}
              /\ fnRes[h] = "none" /\ ext[h] = "off" /\ calls[h].release = 0
        /\ pc[h] \in {"acquire", "acqRollback", "acqCommit"} =>
              calls[h].fn = 0 /\ ext[h] = "off"

\* fn panicked after the caller's ctx was cancelled; the release statement,
\* run under releaseCtx, has nevertheless released the lock
C12_Witness ==
    \E h \in Supervised :
        /\ pc[h] = "relEnd" /\ fnRes[h] = "panic" /\ callerDone[h]
        /\ calls[h].release = 1
        /\ Returned("Release") /\ ret.h = h /\ ret.err = ErrNil

\* errors DoInTx(ctx, dbConn, Acquire) can return
AcquireErrors == {ErrBegin, ErrDriver, ErrCtx, ErrLockAlreadyAcquired, ErrCommit}

\* ---- C13: DoExclusively returns the error of the acquire transaction when
\* that failed, and otherwise what fn returned (or fn's panic); neither an
\* error of an extension attempt nor a failed release changes the result.
C13_ReturnsAcquireErrorOrFnResult ==
    \A h \in Supervised :
        pc[h] = "returned" =>
            IF calls[h].fn = 0
              THEN out[h] \in AcquireErrors /\ fnRes[h] = "none"
              ELSE out[h] = fnRes[h] /\ fnRes[h] \in {"nil", "error", "panic"}

\* fn returned nil and so did DoExclusively, although the last extension
\* attempt found the lease lost and the release did not release the row
C13_Witness ==
    \E h \in Supervised :
        /\ pc[h] = "returned" /\ fnRes[h] = "nil" /\ out[h] = ErrNil
        /\ extErr[h] = ErrLockAlreadyReleased /\ calls[h].release = 1
        /\ rows[hkey[h]].expire # NULL

\* h's DoExclusively is running fn, extending more often than the lease lasts
Extending(h) == pc[h] = "fn" /\ ticker[h].interval < httl[h]

\* ---- C14: while a DoExclusively call runs fn with extendInterval < TTL, its
\* extensions succeed and the key stays held under its token, so the acquire
\* of every other DoExclusively call on the key gets ErrLockAlreadyAcquired
\* and that call returns it without running its fn; an acquire that finds the
\* row released by a returned call succeeds.
C14_OtherCallsRefusedWhileExtending ==
    \A h, g \in Handles : h # g /\ hkey[h] = hkey[g] =>
        /\ Extending(h) =>
              /\ extErr[h] = ErrNil /\ ~childDone[h]
              /\ Held(rows[hkey[h]], now) /\ rows[hkey[h]].token = htoken[h]
        /\ Extending(h) /\ Returned("Acquire") /\ ret.h = g
              => ret.err = ErrLockAlreadyAcquired /\ pc[g] = "acqRollback"
        /\ pc[g] = "returned" /\ out[g] = ErrLockAlreadyAcquired
              => calls[g].fn = 0 /\ fnRes[g] = "none"
        /\ pc[h] = "returned" /\ calls[h].release = 1
              /\ Returned("Acquire") /\ ret.h = g
              /\ ret.pre.expire = NULL /\ ret.pre.token = htoken[h]
              => ret.err = ErrNil /\ pc[g] = "acqCommit"

\* the first call has extended its lease beyond the first TTL and still runs
\* fn; the other call has returned ErrLockAlreadyAcquired
C14_Witness ==
    \E h, g \in Handles :
        /\ h # g /\ hkey[h] = hkey[g] /\ Extending(h)
        /\ rows[hkey[h]].expire > ticker[h].start + httl[h]
        /\ pc[g] = "returned" /\ out[g] = ErrLockAlreadyAcquired

\* the DoInTx call of h's caller has returned (or re-raised a panic)
DoInTxOver(h) == pc[h] = "idle" /\ calls[h].begin = 1

\* ---- C15: in a DoInTx call whose begin succeeded fn is called once and
\* exactly one of commit and rollback is attempted, commit iff fn returned nil,
\* rollback iff fn returned an error or panicked; when begin failed, fn is not
\* called and neither commit nor rollback is attempted.
C15_CommitXorRollback ==
    \A h \in Handles :
        /\ calls[h].fn <= 1 /\ calls[h].commit + calls[h].rollback <= calls[h].fn
        /\ calls[h].commit = 1 => fnRes[h] = ErrNil
        /\ calls[h].rollback = 1 => fnRes[h] \notin {ErrNil, "none"}
        /\ DoInTxOver(h) /\ calls[h].fn = 1 =>
              calls[h].commit + calls[h].rollback = 1
        /\ DoInTxOver(h) /\ calls[h].fn = 0 =>
              out[h] = ErrBegin /\ fnRes[h] = "none"
                  /\ calls[h].commit = 0 /\ calls[h].rollback = 0

\* fn panicked after its statement had acquired the lock in the transaction:
\* the rollback was attempted and the row is not held
C15_Witness ==
    \E h \in Handles :
        /\ DoInTxOver(h) /\ fnRes[h] = "panic"
        /\ calls[h].rollback = 1 /\ calls[h].commit = 0
        /\ htoken[h] # NoToken /\ rows[hkey[h]].token = NoToken

\* ---- C16: DoInTx returns fn's error unchanged when fn fails, an error that
\* wraps the driver's error when begin or commit fails, nil only when the
\* commit succeeded, and re-raises fn's panic after the rollback was attempted.
C16_DoInTxResult ==
    \A h \in Handles : DoInTxOver(h) =>
        /\ calls[h].fn = 0 => out[h] = ErrBegin /\ Unwrap(out[h]) = ErrDriver
        /\ calls[h].fn = 1 /\ fnRes[h] # ErrNil =>
              out[h] = fnRes[h] /\ calls[h].rollback = 1
        /\ calls[h].fn = 1 /\ fnRes[h] = ErrNil /\ ~calls[h].committed =>
              out[h] = ErrCommit /\ Unwrap(out[h]) = ErrDriver
        /\ out[h] = ErrNil <=> calls[h].committed

\* fn returned nil, the commit failed, and DoInTx returned the wrapped error
\* while the row stayed as it was
C16_Witness ==
    \E h \in Handles :
        /\ DoInTxOver(h) /\ fnRes[h] = ErrNil /\ out[h] = ErrCommit
        /\ htoken[h] # NoToken /\ rows[hkey[h]].token # htoken[h]

\* ---- C17: when the context of an Acquire, Extend or Release is done and
\* the statement reports zero affected rows, the call returns the context's
\* error, not ErrLockAlreadyAcquired or ErrLockAlreadyReleased, and the
\* handle's token is the one it had before the call.
C17_CtxErrorInsteadOfLockError ==
    [][ ret'.op \in {"Acquire", "Extend", "Release"} /\ ret'.ctxErr /\ ret'.aff = 0
          => /\ ret'.err = ErrCtx
             /\ ret'.err \notin {ErrLockAlreadyAcquired, ErrLockAlreadyReleased}
             /\ htoken'[ret'.h] = htoken[ret'.h] ]_vars

\* an Acquire under a done context met a row held under another token: it
\* affected no row, returned the context's error and left the handle's token empty
C17_Witness ==
    /\ Returned("Acquire") /\ ret.ctxErr /\ ret.aff = 0
    /\ Held(ret.pre, now) /\ ret.pre.token # ret.tok
    /\ ret.err = ErrCtx /\ htoken[ret.h] = NoToken

\* The errors errors.Unwrap reaches from e, e itself included.
RECURSIVE UnwrapChain(_)
UnwrapChain(e) ==
    IF e = NilError THEN {} ELSE {e} \cup UnwrapChain(errorsUnwrap(e))

\* the predicates registered for the driver of the last classifier call
Registered == {retryableErrors[retry.d][i] : i \in 1..Len(retryableErrors[retry.d])}

\* ---- C18: for a driver with registered predicates p1..pn the predicate
\* GetIsRetryable returns is true for an error exactly when some pi is true
\* for the error or for an error in its unwrap chain; for a driver with no
\* registration it is false for every error.
C18_ComposedPredicate ==
    retry.op # "none" =>
        /\ retry.is <=> \E p \in Registered, x \in UnwrapChain(retry.err) : Retryable(p, x)
        /\ retryableErrors[retry.d] = <<>> => ~retry.is

\* the postgres predicate was registered first and a predicate that is never
\* true after it; a deadlock inside a TxCommitError is classified retryable
C18_Witness ==
    /\ retry.op # "none"
    /\ retryableErrors[retry.d] = <<"postgres", "never">>
    /\ retry.err = <<TxCommitError, PqDeadlockDetected>>
    /\ retry.is

\* the layers that keep their cause reachable: fmt.Errorf with %w and the
\* transaction errors
CausePreserving == {FmtW, TxBeginError, TxCommitError, TxRollbackError}

\* ---- C19: an error the composed predicate is true for stays so when it is
\* wrapped in cause-preserving layers (fmt %w, TxBeginError, TxCommitError,
\* TxRollbackError), and wrapping in such a layer that no registered predicate
\* is true for leaves the answer as it was.
C19_WrappingKeepsAnswer ==
    [][ retry'.op = "wrap" /\ retry' # retry /\ Head(retry'.err) \in CausePreserving
          => /\ retry.is => retry'.is
             /\ (\A p \in Registered : ~Retryable(p, <<Head(retry'.err)>>))
                   => retry'.is = retry.is ]_vars

\* a MySQL deadlock wrapped by fmt %w and then in a TxBeginError is still
\* classified retryable
C19_Witness ==
    /\ retry.op = "wrap"
    /\ retry.err = <<TxBeginError, FmtW, MySQLDeadlock>>
    /\ retry.is

\* e is one of the lock errors, bare or under any wrapping layers
LockError(e) ==
    e # NilError /\ e[Len(e)] \in {LockAlreadyAcquired, LockAlreadyReleased}

\* the deadlock error of the driver the predicate p belongs to
Deadlock(p) ==
    CASE p = "postgres" -> {PqDeadlockDetected}
      [] p = "mysql" -> {MySQLDeadlock}
      [] OTHER -> {}

C21_CalledInRegistrationOrder ==
    retry.op # "none" =>
        LET cs == retry.called
            n == Len(retryableErrors[retry.d])
        IN  /\ retry.is = Hit(cs)
            /\ \A k \in 1..Len(cs) : cs[k].r => k = Len(cs)
            \* on every error a predicate is called only after those registered
            \* before it have been called on that error
            /\ \A k \in 1..Len(cs), i \in 1..n :
                  i < cs[k].i => \E j \in 1..(k - 1) : cs[j].i = i /\ cs[j].e = cs[k].e
            /\ cs # <<>> => cs[1].i = 1 /\ cs[1].e = retry.err
            /\ n = 3 /\ Len(retry.err) = 1 /\ ~retry.is
                  => [k \in 1..Len(cs) |-> cs[k].i] = <<1, 2, 3>>

\* three predicates, none true for the lock error given to them, were called
\* once each in the order of their registration
C21_Witness ==
    /\ retry.op = "check" /\ retry.err = <<LockAlreadyAcquired>>
    /\ retryableErrors[retry.d] = <<"never", "mysql", "postgres">>
    /\ ~retry.is /\ Len(retry.called) = 3

\* the number of characters of a key string
Characters(key) == key.ascii + key.wide

\* NewLock returned an invalid-key error, executed no statement and left the
\* table and the handle as they were
Refused ==
    /\ ret'.err \in {ErrKeyEmpty, ErrKeyTooLong}
    /\ ret'.aff = NoResult
    /\ rows' = rows /\ hkey' = hkey

\* NewLock returned a handle for the key, whose row exists
Accepted ==
    /\ ret'.err = ErrNil
    /\ hkey'[ret'.h] = ret'.key.row
    /\ rows'[ret'.key.row].exists

\* ---- C22: NewLock with an empty key or a key longer than 40 characters
\* returns an invalid-key error without executing a statement and writes no
\* row; every key of 1 to 40 characters is accepted.
C22_KeysOf1To40CharactersAccepted ==
    [][ ret'.op = "NewLock" =>
          IF Characters(ret'.key) = 0 \/ Characters(ret'.key) > 40
            THEN Refused ELSE Accepted ]_vars

\* C22 with the length NewLock measures, len(key): an empty key or one longer
\* than 40 bytes is refused without a statement, every key of 1 to 40 bytes
\* is accepted.
C22_KeysOf1To40BytesAccepted ==
    [][ ret'.op = "NewLock" =>
          IF len(ret'.key) = 0 \/ len(ret'.key) > MaxKeyLen
            THEN Refused ELSE Accepted ]_vars

\* a key of 40 characters, one of them two bytes long, was refused as too long
C22_Witness ==
    /\ ret.op = "NewLock" /\ Characters(ret.key) = 40 /\ len(ret.key) = 41
    /\ ret.err = ErrKeyTooLong /\ ret.aff = NoResult /\ hkey[ret.h] = NoKey

\* ---- C23: NewLock inserts a row holding only the key when the key has none
\* and changes nothing when it has one, so the token and expire_at of an
\* existing row and its holder's lease stay as they were; no call of NewLock,
\* Acquire, Extend or Release deletes a row.
C23_NewLockInsertsIfAbsent ==
    [][ /\ \A k \in Keys : rows[k].exists => rows'[k].exists
        /\ ret'.op = "NewLock" /\ ret'.err = ErrNil =>
              LET k == ret'.key.row IN
              /\ \A q \in Keys \ {k} : rows'[q] = rows[q]
              /\ rows[k].exists => rows'[k] = rows[k]
              /\ ~rows[k].exists
                    => rows'[k] = [exists |-> TRUE, token |-> NoToken, expire |-> NULL]
              /\ holding' = holding ]_vars

\* a handle was created for a key another handle holds: the row still carries
\* the holder's token and expire_at
C23_Witness ==
    /\ ret.op = "NewLock" /\ ret.err = ErrNil /\ ret.aff = 0
    /\ Held(ret.pre, now) /\ rows[ret.key.row] = ret.pre
    /\ \E g \in Handles : g # ret.h /\ holding[g] /\ htoken[g] = ret.pre.token

AfterAcquire == {"acqCommit", "fn", "join", "release", "relEnd"}

\* C26: from the successful acquire inside DoExclusively until DoExclusively
\* returns, the handle's Token() is constant and equal to the token written
\* by that acquire, and every extension and the final release use that
\* token: they are made with it, and succeed only on a row that carries it
C26_TokenConstantInDoExclusively ==
    [][ \A h \in Supervised :
          /\ (ret'.op = "Acquire" /\ ret'.h = h /\ ret'.err = ErrNil)
                => /\ Token(h)' = ret'.tok
                   /\ tx'[h].row.token = ret'.tok
                   /\ pc'[h] \in AfterAcquire
          /\ pc[h] \in AfterAcquire => Token(h)' = Token(h)
          /\ (ret'.op \in {"Extend", "Release"} /\ ret'.h = h)
                => /\ pc[h] \in AfterAcquire
                   /\ ret'.tok = Token(h)
                   /\ ret'.err = ErrNil => ret'.pre.token = Token(h) ]_vars

\* an extension of a running DoExclusively call has succeeded with the token
\* of its acquire, on a key another handle had acquired before
C26_Witness ==
    /\ \E h \in Supervised :
          /\ pc[h] = "fn" /\ Returned("Extend") /\ ret.h = h
          /\ ret.err = ErrNil /\ ret.tok = Token(h) /\ Token(h) # NoToken
          /\ tx[h].row.token = Token(h)
    /\ \E g \in Competitors : Token(g) # NoToken

\* the two callers of DoExclusively on one key
Rivals == {1, 2}

\* Both callers run DoExclusively on the same key with a TTL and an
\* extension interval of its choice, on a clock on which neither the
\* goroutines nor the transactions take time; an extension attempt may fail
\* at begin, in the driver or at commit.
NextFaulty ==
    \/ PairClock
    \/ \E h \in Rivals, k \in SpecKeys :
          NewLock(h, k) /\ UNCHANGED <<lapsed, sql, retryvars, procvars, ticker, calls>>
    \/ \E h \in Rivals :
          /\ \A g \in Rivals : hkey[g] # NoKey
          /\ DoExclusively(h, TRUE)
    \/ \E h \in Rivals, ttl \in TTLs : DoExAcquire(h, ttl, "ok")
    \/ \E h \in Rivals : DoExAcquireRollback(h)
    \/ \E h \in Rivals, iv \in Intervals :
          DoExAcquireCommit(h, TRUE) /\ NewTicker(h, iv)
    \/ \E h \in Rivals : FnEnds(h, "nil")
    \/ \E h \in Rivals : ExtensionStops(h)
    \/ \E h \in Rivals, b \in BOOLEAN : ExtensionTick(h, b) /\ TickerFires(h)
    \/ \E h \in Rivals, o \in {"ok", "driverErr"} : ExtensionExtend(h, o)
    \/ \E h \in Rivals, ok \in BOOLEAN : ExtensionCommit(h, ok)
    \/ \E h \in Rivals : ExtensionFailed(h)
    \/ \E h \in Rivals : DoExJoined(h, TRUE)
    \/ \E h \in Rivals : DoExRelease(h, "ok")
    \/ \E h \in Rivals : DoExReturns(h, TRUE)

SpecFaulty == Init /\ [][NextFaulty]_vars

\* fn of h's DoExclusively is running and the context it was given is live
FnRunning(h) == pc[h] = "fn" /\ ~NewCtxDone(h)

\* the lease of h's DoExclusively was left to run out: its ticks come later
\* than the TTL, or one of its extension attempts has failed
LeftToLapse(h) == ticker[h].interval > httl[h] \/ calls[h].extFault

\* C27 as stated: at no instant are the user functions of two DoExclusively
\* calls on the same key both running with a non-cancelled child context,
\* for any TTL, extension interval and pattern of failing extension attempts
C27_FnsNeverOverlap ==
    \A h, g \in Rivals :
        h # g /\ hkey[h] = hkey[g] => ~(FnRunning(h) /\ FnRunning(g))

\* C27 amended: two such functions run at the same instant only when the
\* lease of one of the calls was left to run out, by an extension interval
\* longer than its TTL or by an extension attempt that failed
C27_FnsOverlapOnlyAfterLapse ==
    \A h, g \in Rivals :
        h # g /\ hkey[h] = hkey[g] /\ FnRunning(h) /\ FnRunning(g)
            => LeftToLapse(h) \/ LeftToLapse(g)

\* two functions run at once: the first call ticks within its TTL but an
\* extension attempt of it failed, its lease ran out and the second call
\* acquired the key
C27_Witness ==
    \E h, g \in Rivals :
        /\ h # g /\ hkey[h] = hkey[g] /\ FnRunning(h) /\ FnRunning(g)
        /\ ticker[h].interval <= httl[h] /\ calls[h].extFault
        /\ ~LeftToLapse(g) /\ holding[g] /\ ~holding[h]

\* The test "attempt to acquire 2 locks with the same key within 2 different
\* concurrent transactions": callers begin transactions, call Acquire in
\* them under contexts that may be cancelled at any moment, and commit or
\* roll back, while the server clock runs.
NextConc ==
    \/ Clock
    \/ \E h \in Handles, k \in SpecKeys :
          NewLock(h, k) /\ UNCHANGED <<lapsed, sql, retryvars, procvars, ticker, calls>>
    \/ \E h \in Handles : DoInTxWithOpts(h, TRUE)
    \/ \E h \in Handles, ttl \in TTLs, o \in Outcomes, p \in BOOLEAN :
          DoInTxFn(h, "Acquire", ttl, o, p)
    \/ \E h \in Handles, ok \in BOOLEAN : DoInTxCommit(h, ok)
    \/ \E h \in Handles : DoInTxRollback(h)

SpecConc == Init /\ [][NextConc]_vars

\* the transaction of g's caller is open and holds a successful Acquire
\* that is not committed
OpenAcquire(g) == tx[g].dirty /\ tx[g].eff = "acq"

\* C28: while a transaction holding an uncommitted successful Acquire on a
\* key is open, an Acquire on the same key in another transaction does not
\* complete successfully: it returns only through its context or the driver,
\* with an error, writing nothing and leaving its handle's token as it was
C28_ConcurrentAcquireBlocked ==
    [][ \A h, g \in Handles :
          ( /\ h # g /\ hkey[h] = hkey[g] /\ OpenAcquire(g)
            /\ ret'.op = "Acquire" /\ ret'.h = h )
              => /\ ret'.err \in {ErrCtx, ErrDriver}
                 /\ Token(h)' = Token(h)
                 /\ tx'[h] = tx[h] /\ ~tx[h].dirty
                 /\ rows' = rows /\ OpenAcquire(g)' ]_vars

\* an Acquire has returned the context's error while another transaction's
\* acquire of the key is open; the handle's token is still empty
C28_Witness ==
    /\ Returned("Acquire") /\ ret.err = ErrCtx
    /\ Token(ret.h) = NoToken
    /\ \E g \in Handles \ {ret.h} :
          /\ hkey[g] = hkey[ret.h] /\ OpenAcquire(g)
          /\ Token(g) # NoToken /\ pc[g] = "commit"

\* DoInTx(ctx, dbConn, func(tx) { lock, err = dbManager.NewLock(ctx, tx, key);
\* ... }) up to the return of fn: the insert is written in the transaction,
\* after waiting for a concurrent insert of the key to end, and does nothing
\* when the row exists; lock is assigned; fn returns res.
NewLockInTx(h, key, res) ==
    /\ pc[h] = "idle" /\ out[h] = "none" /\ hkey[h] = NoKey
    /\ hkey' = [hkey EXCEPT ![h] = key]
    /\ IF rows[key].exists
         THEN UNCHANGED <<tx, lockOwner>>
         ELSE /\ lockOwner[key] = 0
              /\ tx' = [tx EXCEPT ![h] = [dirty |-> TRUE, row |-> initLock(rows[key]),
                                          eff |-> "init"]]
              /\ lockOwner' = [lockOwner EXCEPT ![key] = h]
    /\ ret' = Idle
    /\ fnRes' = [fnRes EXCEPT ![h] = res]
    /\ pc' = [pc EXCEPT ![h] = Deferred(res)]
    /\ out' = [out EXCEPT ![h] = res]
    /\ calls' = [calls EXCEPT ![h].begin = @ + 1, ![h].fn = @ + 1]
    /\ UNCHANGED <<now, rows, httl, htoken, holding, lapsed, sql, retryvars, ticker,
                   ext, extErr, callerDone, childDone>>

\* Callers make their handles on the connection or inside DoInTx, whose
\* transaction is committed or, after an error of fn or of the commit, rolled
\* back, and then use the handles directly on the connection, all with the
\* same TTL.
NextInit ==
    \/ Tick /\ UNCHANGED <<lapsed, sql, retryvars, procvars, ticker, calls>>
    \/ \E h \in Handles, k \in SpecKeys :
          /\ pc[h] = "idle" /\ lockOwner[k] = 0
          /\ NewLock(h, k) /\ UNCHANGED <<lapsed, sql, retryvars, procvars, ticker, calls>>
    \/ \E h \in Handles, k \in SpecKeys, res \in {ErrNil, "fn error"} :
          NewLockInTx(h, k, res)
    \/ \E h \in Handles, ok \in BOOLEAN : DoInTxCommit(h, ok)
    \/ \E h \in Handles : DoInTxRollback(h)
    \/ \E h \in Handles :
          /\ pc[h] = "idle"
          /\ Acquire(h, "conn", KeyTTL, "ok")
          /\ UNCHANGED <<lapsed, sql, retryvars, procvars, ticker, calls>>
    \/ \E h \in Handles :
          /\ pc[h] = "idle"
          /\ Release(h, "conn", "ok")
          /\ UNCHANGED <<lapsed, sql, retryvars, procvars, ticker, calls>>

SpecInit == Init /\ [][NextInit]_vars

\* the acquire that has just returned made its handle the holder, with
\* expire_at = now + ttl
MadeHolder ==
    /\ ret.err = ErrNil /\ holding[ret.h] /\ Token(ret.h) = ret.tok
    /\ RetRow.exists /\ RetRow.token = ret.tok
    /\ RetRow.expire = now + httl[ret.h]

\* C29 as stated: whenever a key is free (its row is missing, or its
\* expire_at is absent, or its expire_at < now) an Acquire with a fresh token
\* succeeds and makes the acquiring handle the holder with
\* expire_at = now + ttl
C29_FreeKeyIsAcquired ==
    Returned("Acquire") /\ Free(ret.pre, now) => MadeHolder

\* what the code does: such an Acquire succeeds when the row of the key
\* exists, and returns ErrLockAlreadyAcquired, writing nothing, when the
\* row is missing
C29_FreeRowIsAcquired ==
    /\ Returned("Acquire") /\ Free(ret.pre, now) /\ ret.pre.exists => MadeHolder
    /\ Returned("Acquire") /\ ~ret.pre.exists
          => ret.err = ErrLockAlreadyAcquired /\ ~RetRow.exists /\ ~holding[ret.h]

\* an Acquire has taken over a key whose lease had expired
C29_Witness ==
    /\ Returned("Acquire") /\ MadeHolder
    /\ ret.pre.expire # NULL /\ ret.pre.expire < now /\ ret.pre.token # ret.tok

\* the callers that pass the connection pool, and those that pass the
\* transaction of a DoInTx, as the executor
OnConn == {1}

InTx == {2}

\* Callers use their handles on the connection pool or inside DoInTx, all
\* with the same TTL, under contexts that may be cancelled at any moment and
\* with a driver that may fail, while the server clock runs.
NextFault ==
    \/ Tick /\ UNCHANGED <<lapsed, sql, retryvars, procvars, ticker, calls>>
    \/ \E h \in OnConn \cup InTx, k \in SpecKeys :
          NewLock(h, k) /\ UNCHANGED <<lapsed, sql, retryvars, procvars, ticker, calls>>
    \/ \E h \in OnConn, o \in Outcomes :
          Acquire(h, "conn", KeyTTL, o)
              /\ UNCHANGED <<lapsed, sql, retryvars, procvars, ticker, calls>>
    \/ \E h \in OnConn, o \in Outcomes :
          Release(h, "conn", o)
              /\ UNCHANGED <<lapsed, sql, retryvars, procvars, ticker, calls>>
    \/ \E h \in OnConn, o \in Outcomes :
          Extend(h, "conn", o)
              /\ UNCHANGED <<lapsed, sql, retryvars, procvars, ticker, calls>>
    \/ \E h \in InTx : DoInTxWithOpts(h, TRUE)
    \/ \E h \in InTx, op \in {"Acquire", "Release", "Extend"}, o \in Outcomes :
          DoInTxFn(h, op, KeyTTL, o, FALSE)
    \/ \E h \in InTx : DoInTxCommit(h, TRUE)
    \/ \E h \in InTx : DoInTxRollback(h)

SpecFault == Init /\ [][NextFault]_vars

\* the step is the return of a call of the lock API with an error (and not
\* the begin of a DoInTx, which leaves the last call's record in place)
ReturnsError ==
    /\ ret'.op \in {"Acquire", "Extend", "Release"} /\ ret'.err # ErrNil
    /\ \A h \in Handles : calls'[h].begin = calls[h].begin

\* C30 as stated: when Acquire, Extend or Release returns an error of any
\* kind, the row for the key is exactly as it was before the call, also when
\* the executor is a plain connection rather than an open transaction
C30_ErrorLeavesRow ==
    [][ ReturnsError => rows' = rows ]_vars

\* what the code does: a domain error or a driver error leaves the row as
\* it was; the context's error is returned also after a statement that was
\* executed and changed the row, at once on the connection, and in a
\* transaction until DoInTx rolls it back
C30_ErrorLeavesRowUnlessCtx ==
    [][ /\ ReturnsError /\ ret'.err # ErrCtx => rows' = rows /\ tx' = tx
        /\ ReturnsError /\ (rows' # rows \/ tx' # tx)
              => ret'.err = ErrCtx /\ ret'.ctxErr /\ ret'.aff = 1
        /\ \A h \in Handles :
              ReturnsError /\ ret'.h = h /\ pc[h] = "tx"
                  => rows' = rows /\ pc'[h] = "rollback"
        /\ \A h \in Handles :
              pc[h] = "rollback" /\ pc'[h] # "rollback" => rows' = rows ]_vars

\* an Acquire on the connection has returned the context's error, and the
\* row carries its token, which the handle has not stored
C30_Witness ==
    /\ Returned("Acquire") /\ ret.err = ErrCtx /\ pc[ret.h] = "idle"
    /\ RetRow.token = ret.tok /\ RetRow.expire = now + KeyTTL
    /\ ret.pre.token # ret.tok /\ Token(ret.h) # ret.tok

\* the transaction of h's DoInTx ends in this step, by commit or rollback
TxEnds(h) == pc[h] \in {"commit", "rollback"} /\ pc'[h] = "idle"

\* C31 as stated: a handle's Token() is non-empty only if an acquire through
\* that handle took effect in the database; when the transaction in which
\* Acquire ran was rolled back or its commit failed, the handle's token and
\* TTL are as before the call (here: empty and unset)
C31_TokenOnlyIfCommitted ==
    \A h \in Handles :
        DoInTxOver(h) /\ ~calls[h].committed => Token(h) = NoToken /\ httl[h] = 0

\* C31 amended: token and TTL are stored when an Acquire through the handle
\* returns nil, and by nothing else; the end of the transaction, commit or
\* rollback, successful or not, leaves them as the call stored them
C31_TokenOfReturnedAcquire ==
    [][ \A h \in Handles :
          /\ (Token(h)' # Token(h) \/ httl'[h] # httl[h])
                => /\ pc[h] = "tx" /\ ret'.op = "Acquire" /\ ret'.h = h
                   /\ ret'.err = ErrNil /\ Token(h)' = ret'.tok
                   /\ tx'[h].row.token = ret'.tok
          /\ TxEnds(h) => Token(h)' = Token(h) /\ httl'[h] = httl[h] ]_vars

\* the commit of the transaction in which Acquire had returned nil failed:
\* the row is not written, and the handle keeps the token and the TTL
C31_Witness ==
    \E h \in Handles :
        /\ DoInTxOver(h) /\ calls[h].commit = 1 /\ ~calls[h].committed
        /\ out[h] = ErrCommit
        /\ Token(h) # NoToken /\ httl[h] \in TTLs
        /\ rows[hkey[h]].token # Token(h)

\* C32: only an acquire can take a key from free to held: Extend and
\* Release never make a free key (expire_at absent or expire_at < now) held,
\* so an expired or released lease cannot be revived by extending it
C32_OnlyAcquireTakesFreeKey ==
    [][ /\ \A k \in Keys :
              Free(rows[k], now) /\ Held(rows'[k], now')
                  => /\ ret'.op = "Acquire" /\ ret'.err = ErrNil
                     /\ hkey[ret'.h] = k /\ rows'[k].token = ret'.tok
        /\ ( ret'.op \in {"Extend", "Release"} /\ Free(ret'.pre, now) )
              => /\ ret'.err = ErrLockAlreadyReleased
                 /\ rows' = rows /\ holding' = holding ]_vars

\* a handle has tried to extend its own lease after the lease had expired,
\* and was refused; the row is as the expiry left it
C32_Witness ==
    /\ Returned("Extend") /\ ret.err = ErrLockAlreadyReleased
    /\ ret.pre.token = ret.tok /\ ret.tok # NoToken
    /\ ret.pre.expire # NULL /\ ret.pre.expire < now
    /\ RetRow = ret.pre /\ Free(RetRow, now)

\* an Extend returns nil in this step
Extended == ret'.op = "Extend" /\ ret'.err = ErrNil

\* C33 as stated: a successful Extend never moves a held row's expire_at to
\* an earlier instant than it had before the call, for any number of handles
\* operating on the key with Acquire or AcquireWithStaticToken and any TTLs
C33_ExtendNeverShortens ==
    [][ \A k \in Keys :
          Extended /\ hkey[ret'.h] = k => rows'[k].expire >= rows[k].expire ]_vars

\* what the code does: a successful Extend sets expire_at to now plus the
\* TTL of the handle's own last acquire, whatever expire_at was; that is
\* earlier than before only under a token several handles share, after
\* another handle acquired with a longer TTL
C33_ExtendSetsNowPlusOwnTTL ==
    [][ \A k \in Keys :
          Extended /\ hkey[ret'.h] = k
              => /\ rows'[k].expire = now + httl[ret'.h]
                 /\ rows[k].expire >= now /\ rows'[k].token = rows[k].token
                 /\ rows'[k].expire < rows[k].expire
                       => /\ ret'.tok \in StaticTokens
                          /\ \E g \in Handles \ {ret'.h} :
                                /\ hkey[g] = k /\ htoken[g] = ret'.tok
                                /\ httl[g] > httl[ret'.h] ]_vars

\* an Extend through a handle with the short TTL has returned nil on a row
\* that another handle, with the same static token and the long TTL, had
\* written: expire_at is now earlier than that handle set it
C33_Witness ==
    /\ Returned("Extend") /\ ret.err = ErrNil /\ ret.tok \in StaticTokens
    /\ RetRow.expire < ret.pre.expire /\ RetRow.expire = now + httl[ret.h]
    /\ \E g \in Handles \ {ret.h} :
          htoken[g] = ret.tok /\ ret.pre.expire = now + httl[g]

\* the server clock of a run in which time does not stop
ClockRuns == Tick /\ UNCHANGED <<lapsed, sql, retryvars, ticker, calls, procvars>>

\* Holders that stop: handles acquire on the connection, with fresh tokens
\* or the static one, and then neither extend nor release; a release that
\* is tried fails in the driver.
NextExpiry ==
    \/ ClockRuns
    \/ \E h \in Handles, k \in SpecKeys :
          NewLock(h, k) /\ UNCHANGED <<lapsed, sql, retryvars, ticker, calls, procvars>>
    \/ \E h \in Handles, ttl \in TTLs :
          /\ Acquire(h, "conn", ttl, "ok")
          /\ UNCHANGED <<lapsed, sql, retryvars, ticker, calls, procvars>>
    \/ \E h \in Handles, t \in StaticTokens, ttl \in TTLs :
          /\ AcquireWithStaticToken(h, "conn", t, ttl, "ok")
          /\ UNCHANGED <<lapsed, sql, retryvars, ticker, calls, procvars>>
    \/ \E h \in Handles :
          /\ Release(h, "conn", "driverErr")
          /\ UNCHANGED <<lapsed, sql, retryvars, ticker, calls, procvars>>

SpecExpiry == Init /\ [][NextExpiry]_vars /\ WF_vars(ClockRuns)

\* the instants before the horizon of the clock, which now can pass
Instants == 0 .. MaxTime - 1

\* C34: a lease that is neither released nor extended stops being held once
\* now passes its expire_at: from then on an Acquire by any handle with any
\* token succeeds, so no key stays locked for ever without successful
\* extends: a lease with expire_at = e comes to its end (now > e) unless an
\* acquire has replaced it before
C34_LeaseEndsAtExpiry ==
    /\ [](\A k \in Keys :
             rows[k].expire # NULL /\ rows[k].expire < now => Free(rows[k], now))
    /\ []( ( /\ Returned("Acquire") /\ ret.pre.exists
              /\ ret.pre.expire # NULL /\ ret.pre.expire < now ) => MadeHolder )
    /\ \A k \in SpecKeys, e \in Instants :
          rows[k].expire = e
              ~> (rows[k].expire # e \/ (now > e /\ Free(rows[k], now)))

\* a handle has acquired, with a token of its own, the key whose lease
\* another handle let run out after its release had failed
C34_Witness ==
    /\ Returned("Acquire") /\ MadeHolder
    /\ ret.pre.expire # NULL /\ ret.pre.expire < now
    /\ \E g \in Handles \ {ret.h} :
          /\ Token(g) = ret.pre.token /\ Token(g) # ret.tok /\ ~holding[g]

\* The test "acquire and release locks with the same key many times
\* concurrently": each caller loops over DoInTx(Acquire) until it returns
\* nil, sleeping after ErrLockAlreadyAcquired, and then calls
\* DoInTx(Release) at once.
\* time.Sleep(...); continue: the next turn of the loop
LoopRetry(h) ==
    /\ pc[h] = "idle" /\ out[h] = ErrLockAlreadyAcquired
    /\ out' = [out EXCEPT ![h] = "none"]
    /\ UNCHANGED <<dbvars, lapsed, sql, retryvars, ticker, calls, pc, ext, extErr, fnRes,
                   callerDone, childDone>>

\* DoInTx rolls back after Acquire returned an error, and returns the error
LoopRollback(h) ==
    /\ pc[h] = "rollback"
    /\ IF tx[h].dirty THEN EndTx(h, FALSE)
                      ELSE UNCHANGED <<tx, lockOwner, rows, holding>>
    /\ ret' = Idle
    /\ pc' = [pc EXCEPT ![h] = "idle"]
    /\ UNCHANGED <<now, hkey, httl, htoken, lapsed, sql, retryvars, ticker, calls, out, ext,
                   extErr, fnRes, callerDone, childDone>>

\* the loop was left with acquireErr == nil
Acquired(h) == pc[h] = "idle" /\ out[h] = ErrNil /\ calls[h].committed

\* DoInTx(ctx, dbConn, func(tx) { return lock.Release(ctx, tx) }) up to the
\* return of fn
LoopRelease(h) ==
    /\ Acquired(h)
    /\ Release(h, "tx", "ok")
    /\ pc' = [pc EXCEPT ![h] = "relEnd"]
    /\ out' = [out EXCEPT ![h] = ret'.err]
    /\ UNCHANGED <<lapsed, sql, retryvars, ticker, calls, ext, extErr, fnRes, callerDone,
                   childDone>>

\* DoInTx commits the release, or rolls back after its error; the goroutine
\* ends
LoopReleaseEnds(h) ==
    /\ pc[h] = "relEnd"
    /\ IF tx[h].dirty THEN EndTx(h, out[h] = ErrNil)
                      ELSE UNCHANGED <<tx, lockOwner, rows, holding>>
    /\ ret' = Idle
    /\ pc' = [pc EXCEPT ![h] = "returned"]
    /\ UNCHANGED <<now, hkey, httl, htoken, lapsed, sql, retryvars, ticker, calls, out, ext,
                   extErr, fnRes, callerDone, childDone>>

\* the server clock while the callers sleep: a caller that has acquired
\* releases right after, before time has passed
LoopClock ==
    /\ \A h \in Handles : pc[h] \notin {"commit", "relEnd"} /\ ~Acquired(h)
    /\ Tick
    /\ UNCHANGED <<lapsed, sql, retryvars, procvars, ticker, calls>>

\* the steps of the goroutine of handle h
LoopStep(h) ==
    \/ /\ \A g \in Handles : hkey[g] # NoKey
       /\ DoInTxAcquire(h, KeyTTL)
    \/ DoInTxCommit(h, TRUE)
    \/ LoopRollback(h)
    \/ LoopRetry(h)
    \/ LoopRelease(h)
    \/ LoopReleaseEnds(h)

NextLoop ==
    \/ LoopClock
    \/ \E h \in Handles, k \in SpecKeys :
          /\ \A g \in Handles : pc[g] = "idle" /\ out[g] = "none"
          /\ NewLock(h, k) /\ UNCHANGED <<lapsed, sql, retryvars, ticker, calls, procvars>>
    \/ \E h \in Handles : LoopStep(h)

\* fair scheduling: every goroutine that can take a step takes one
SpecLoop ==
    /\ Init /\ [][NextLoop]_vars
    /\ \A h \in Handles : WF_vars(LoopStep(h))
    /\ WF_vars(\E h \in Handles, k \in SpecKeys :
                  NewLock(h, k) /\ UNCHANGED <<lapsed, sql, retryvars, ticker, calls, procvars>>)

\* C35: with N handles on one key, each retrying Acquire after
\* ErrLockAlreadyAcquired and calling Release right after it succeeds, every
\* handle eventually acquires the lock (under fair scheduling), each such
\* Release succeeds, and no error other than ErrLockAlreadyAcquired is ever
\* returned
C35_EveryHandleAcquires ==
    /\ \A h \in Handles : <>(calls[h].committed /\ pc[h] = "returned")
    /\ [](Returned("Release") => ret.err = ErrNil /\ ret.tok = ret.pre.token)
    /\ [](ret.err \in {ErrNil, ErrLockAlreadyAcquired})
    /\ [](\A h \in Handles : out[h] \in {"none", ErrNil, ErrLockAlreadyAcquired})

\* every handle has acquired and released, each under a token of its own,
\* and time has passed in between
C35_Witness ==
    /\ \A h \in Handles : calls[h].committed /\ pc[h] = "returned" /\ out[h] = ErrNil
    /\ \A h, g \in Handles : h # g => Token(h) # Token(g)
    /\ \A k \in SpecKeys : rows[k].expire = NULL
    /\ now > 0

\* Scheduling of one DoExclusively call: a goroutine that can take a step
\* takes it, the database operations return, and a select with both
\* channels ready does not pick the ticker for ever.
DoExFair(h) ==
    /\ WF_vars(\E o \in Outcomes : ExtensionExtend(h, o))
    /\ WF_vars(\E ok \in BOOLEAN : ExtensionCommit(h, ok))
    /\ WF_vars(ExtensionFailed(h))
    /\ SF_vars(ExtensionStops(h))
    /\ WF_vars(\E b \in BOOLEAN : DoExJoined(h, b))
    /\ WF_vars(\E o \in Outcomes : DoExRelease(h, o))
    /\ WF_vars(\E ok \in BOOLEAN : DoExReturns(h, ok))

SpecDoExFair == Init /\ [][NextDoEx]_vars /\ \A h \in Supervised : DoExFair(h)

\* C36: DoExclusively terminates once the user function has returned and
\* the database operations return: the wait for the extension task always
\* completes, whether that task already exited after observing the lease
\* loss or is still ticking, and the release is attempted once and returns
C36_DoExclusivelyTerminates ==
    /\ \A h \in Supervised : pc[h] = "join" ~> pc[h] = "returned"
    /\ [](\A h \in Supervised :
             pc[h] \in {"release", "relEnd"} \/ (pc[h] = "returned" /\ calls[h].fn = 1)
                 => ext[h] = "exited" /\ calls[h].release = 1)

\* DoExclusively has returned after fn ended; the extension task had exited
\* before, when it observed the loss of the lease
C36_Witness ==
    \E h \in Supervised :
        /\ pc[h] = "returned" /\ calls[h].fn = 1 /\ calls[h].release = 1
        /\ ext[h] = "exited" /\ extErr[h] = ErrLockAlreadyReleased
        /\ childDone[h] /\ ~callerDone[h]

\* a Release through a handle that shares the row's static token with
\* handle g on the same key has just returned nil
ReleasedBySharer(g) ==
    /\ ret.op = "Release" /\ ret.err = ErrNil /\ ret.tok \in StaticTokens
    /\ ret.h # g /\ hkey[g] = hkey[ret.h] /\ htoken[g] = ret.tok

\* C37: when two handles hold the same key through the same static token, a
\* Release by one of them frees the key for both: the other handle's
\* subsequent Extend and Release return ErrLockAlreadyReleased, and a handle
\* with a different token can then acquire the key
C37_ReleaseFreesForAllSharers ==
    [][ \A g \in Handles :
          ReleasedBySharer(g)
              => /\ Free(rows[hkey[g]], now) /\ ~holding[g] /\ ~holding[ret.h]
                 /\ (ret'.op \in {"Extend", "Release"} /\ ret'.h = g)
                       => ret'.err = ErrLockAlreadyReleased /\ rows' = rows
                 /\ ( /\ ret'.op = "Acquire" /\ ret'.tok # ret.tok
                      /\ \E f \in Handles : ret'.h = f /\ hkey[f] = hkey[g] )
                       => /\ ret'.err = ErrNil
                          /\ rows'[hkey[g]].token = ret'.tok
                          /\ Held(rows'[hkey[g]], now') ]_vars

\* after a release under the shared static token, a sharer's Extend with
\* that token, which the row still carries, was refused
C37_Witness ==
    /\ Returned("Extend") /\ ret.err = ErrLockAlreadyReleased
    /\ ret.tok \in StaticTokens /\ ret.pre.token = ret.tok
    /\ ret.pre.expire = NULL /\ httl[ret.h] \in TTLs
    /\ \E h \in Handles \ {ret.h} :
          hkey[h] = hkey[ret.h] /\ htoken[h] = ret.tok

\* -------------------------------------------------------- query templates
\* The two sets of templates newDBQueries chooses from, each on its own table.
\* A row is [exists, token, expire]: column token is NULL until an acquire
\* writes it; expire_at is a timestamp (microseconds) in PostgreSQL and a
\* BIGINT of 100-microsecond ticks in MySQL.

\* a token string is the text of a UUID
IsUUID(token) == token \notin {NoToken, PlainToken}

\* A token argument can be sent for column token: PostgreSQL's column has type
\* uuid, so the text must be a UUID, or the statement fails; MySQL's column is
\* VARCHAR(36).
BindToken(d, token) == d = "postgres" => IsUUID(token)

\* fmt.Sprintf("%d microseconds", interval.Microseconds())
postgresMakeInterval(ttl) == ttl * TickMicros
\* fmt.Sprintf("%d", interval.Microseconds())
mySQLMakeInterval(ttl) == ttl * TickMicros

\* NOW(), in microseconds
postgresNow(t) == t * TickMicros
\* UNIX_TIMESTAMP(CURTIME(4))*10000
mySQLNow(t) == t

\* INSERT INTO ... (lock_key) VALUES ($1) ON CONFLICT (lock_key) DO NOTHING
postgresInitLockQuery(row) ==
    IF row.exists THEN row ELSE [exists |-> TRUE, token |-> NULL, expire |-> NULL]
\* INSERT IGNORE INTO ... (lock_key) VALUES (?)
mySQLInitLockQuery(row) ==
    IF row.exists THEN row ELSE [exists |-> TRUE, token |-> NULL, expire |-> NULL]

\* UPDATE ... SET expire_at = NOW() + $1::interval, token = $2 WHERE lock_key = $3
\*   AND ((expire_at IS NULL OR expire_at < NOW()) OR token = $4)
postgresAcquireLockQuery(row, interval, token, t) ==
    LET hit == row.exists /\ ( \/ row.expire = NULL
                               \/ row.expire < postgresNow(t)
                               \/ (row.token # NULL /\ row.token = token) )
    IN  [matched |-> hit,
         row |-> IF hit THEN [row EXCEPT !.expire = postgresNow(t) + interval,
                                         !.token = token]
                 ELSE row]

\* UPDATE ... SET expire_at = UNIX_TIMESTAMP(DATE_ADD(CURTIME(4), INTERVAL ?
\*   MICROSECOND))*10000, token = ? WHERE lock_key = ? AND ((expire_at IS NULL
\*   OR expire_at < UNIX_TIMESTAMP(CURTIME(4))*10000) OR token = ?)
mySQLAcquireLockQuery(row, interval, token, t) ==
    LET hit == row.exists /\ ( \/ row.expire = NULL
                               \/ row.expire < mySQLNow(t)
                               \/ (row.token # NULL /\ row.token = token) )
    IN  [matched |-> hit,
         row |-> IF hit THEN [row EXCEPT
                                !.expire = (t * TickMicros + interval) \div TickMicros,
                                !.token = token]
                 ELSE row]

\* UPDATE ... SET expire_at = NULL WHERE lock_key = $1 AND token = $2
\*   AND expire_at >= NOW()
postgresReleaseLockQuery(row, token, t) ==
    LET hit == /\ row.exists /\ row.token # NULL /\ row.token = token
               /\ row.expire # NULL /\ row.expire >= postgresNow(t)
    IN  [matched |-> hit, row |-> IF hit THEN [row EXCEPT !.expire = NULL] ELSE row]

\* UPDATE ... SET expire_at = NULL WHERE lock_key = ? AND token = ?
\*   AND expire_at >= UNIX_TIMESTAMP(CURTIME(4))*10000
mySQLReleaseLockQuery(row, token, t) ==
    LET hit == /\ row.exists /\ row.token # NULL /\ row.token = token
               /\ row.expire # NULL /\ row.expire >= mySQLNow(t)
    IN  [matched |-> hit, row |-> IF hit THEN [row EXCEPT !.expire = NULL] ELSE row]

\* UPDATE ... SET expire_at = NOW() + $1::interval WHERE lock_key = $2
\*   AND token = $3 AND expire_at >= NOW()
postgresExtendLockQuery(row, interval, token, t) ==
    LET hit == /\ row.exists /\ row.token # NULL /\ row.token = token
               /\ row.expire # NULL /\ row.expire >= postgresNow(t)
    IN  [matched |-> hit,
         row |-> IF hit THEN [row EXCEPT !.expire = postgresNow(t) + interval]
                 ELSE row]

\* UPDATE ... SET expire_at = UNIX_TIMESTAMP(DATE_ADD(CURTIME(4), INTERVAL ?
\*   MICROSECOND))*10000 WHERE lock_key = ? AND token = ?
\*   AND expire_at >= UNIX_TIMESTAMP(CURTIME(4))*10000
mySQLExtendLockQuery(row, interval, token, t) ==
    LET hit == /\ row.exists /\ row.token # NULL /\ row.token = token
               /\ row.expire # NULL /\ row.expire >= mySQLNow(t)
    IN  [matched |-> hit,
         row |-> IF hit THEN [row EXCEPT
                                !.expire = (t * TickMicros + interval) \div TickMicros]
                 ELSE row]

\* mutant: the MySQL connection reports the rows matched (clientFoundRows)
RowsAffectedIn_Found(d, old, res) == IF res.matched THEN 1 ELSE 0

\* result.RowsAffected(): PostgreSQL counts the rows the WHERE clause matched;
\* MySQL, on a connection opened without clientFoundRows (MakeMySQLDSN sets
\* none), counts the rows whose values the UPDATE changed.
RowsAffectedIn(d, old, res) ==
    IF d = "postgres" THEN (IF res.matched THEN 1 ELSE 0)
    ELSE (IF res.matched /\ res.row # old THEN 1 ELSE 0)

\* one dialect's key is held at tick t
HeldIn(d, t) ==
    LET row == sql.side[d].row
    IN  /\ row.exists /\ row.expire # NULL
        /\ row.expire >= (IF d = "postgres" THEN postgresNow(t) ELSE mySQLNow(t))

\* execQueryAndCheck under dialect d on side s: the driver's error when the
\* token cannot be sent, errOnNoAffectedRows unless one row is affected
execQueryAndCheckIn(d, s, res, token, errOnNoAffectedRows) ==
    IF ~BindToken(d, token) THEN [err |-> ErrDriver, row |-> s.row]
    ELSE IF RowsAffectedIn(d, s.row, res) # 1
           THEN [err |-> errOnNoAffectedRows, row |-> s.row]
    ELSE [err |-> ErrNil, row |-> res.row]

\* DBLock.AcquireWithStaticToken under dialect d
AcquireIn(d, s, h, token, ttl, t) ==
    LET res == IF d = "postgres"
                 THEN postgresAcquireLockQuery(s.row, postgresMakeInterval(ttl), token, t)
                 ELSE mySQLAcquireLockQuery(s.row, mySQLMakeInterval(ttl), token, t)
        r == execQueryAndCheckIn(d, s, res, token, ErrLockAlreadyAcquired)
    IN  IF r.err # ErrNil THEN [s EXCEPT !.err = r.err]
        ELSE [s EXCEPT !.row = r.row, !.token[h] = token, !.ttl[h] = ttl,
                       !.err = ErrNil]

\* DBLock.Release under dialect d
ReleaseIn(d, s, h, t) ==
    LET res == IF d = "postgres"
                 THEN postgresReleaseLockQuery(s.row, s.token[h], t)
                 ELSE mySQLReleaseLockQuery(s.row, s.token[h], t)
        r == execQueryAndCheckIn(d, s, res, s.token[h], ErrLockAlreadyReleased)
    IN  [s EXCEPT !.row = r.row, !.err = r.err]

\* DBLock.Extend under dialect d
ExtendIn(d, s, h, t) ==
    LET res == IF d = "postgres"
                 THEN postgresExtendLockQuery(s.row, postgresMakeInterval(s.ttl[h]),
                                              s.token[h], t)
                 ELSE mySQLExtendLockQuery(s.row, mySQLMakeInterval(s.ttl[h]),
                                           s.token[h], t)
        r == execQueryAndCheckIn(d, s, res, s.token[h], ErrLockAlreadyReleased)
    IN  [s EXCEPT !.row = r.row, !.err = r.err]

\* tokens in use under either dialect
TokensIn ==
    UNION {{sql.side[d].row.token} \cup {sql.side[d].token[h] : h \in Handles} :
             d \in Dialects}

\* The same call is made on a PostgreSQL and on a MySQL database, on the
\* connection, at the same tick of the clock.
OnEachNewLock(h) ==
    /\ ~sql.made[h]
    /\ sql' = [sql EXCEPT !.op = "NewLock", !.h = h, !.tok = NoToken,
                 !.made[h] = TRUE,
                 !.side = [d \in Dialects |->
                    [sql.side[d] EXCEPT
                       !.row = IF d = "postgres" THEN postgresInitLockQuery(@)
                               ELSE mySQLInitLockQuery(@),
                       !.err = ErrNil]]]
    /\ UNCHANGED <<dbvars, lapsed, procvars, ticker, calls, retryvars>>

OnEachAcquireWithStaticToken(h, token, ttl) ==
    /\ sql.made[h]
    /\ sql' = [sql EXCEPT !.op = "Acquire", !.h = h, !.tok = token,
                 !.side = [d \in Dialects |->
                             AcquireIn(d, sql.side[d], h, token, ttl, sql.clock)]]
    /\ UNCHANGED <<dbvars, lapsed, procvars, ticker, calls, retryvars>>

\* values uuid.NewString() has left for handle h: two are enough for a token
\* in neither table and in no handle
NewStringsIn(h) == {t \in FreshTokens(h) : t <= 10 * h + 2} \ TokensIn

\* Acquire: the token is uuid.NewString()
OnEachAcquire(h, ttl) ==
    /\ NewStringsIn(h) # {}
    /\ OnEachAcquireWithStaticToken(h,
          CHOOSE t \in NewStringsIn(h) : \A u \in NewStringsIn(h) : t <= u, ttl)

OnEachRelease(h) ==
    /\ sql.made[h]
    /\ sql' = [sql EXCEPT !.op = "Release", !.h = h,
                 !.tok = NoToken,
                 !.side = [d \in Dialects |->
                             ReleaseIn(d, sql.side[d], h, sql.clock)]]
    /\ UNCHANGED <<dbvars, lapsed, procvars, ticker, calls, retryvars>>

OnEachExtend(h) ==
    /\ sql.made[h]
    /\ sql' = [sql EXCEPT !.op = "Extend", !.h = h,
                 !.tok = NoToken,
                 !.side = [d \in Dialects |->
                             ExtendIn(d, sql.side[d], h, sql.clock)]]
    /\ UNCHANGED <<dbvars, lapsed, procvars, ticker, calls, retryvars>>

\* both servers' clocks advance by one tick
OnEachTick ==
    /\ sql.clock < MaxTime
    /\ sql' = [sql EXCEPT !.clock = @ + 1, !.op = "none", !.h = 0, !.tok = NoToken]
    /\ UNCHANGED <<dbvars, lapsed, procvars, ticker, calls, retryvars>>

\* the caller that acquires with static tokens, and the one that uses Acquire
WithStatic == {1}
WithFresh == {2}

NextDialects ==
    \/ OnEachTick
    \/ \E h \in Handles : OnEachNewLock(h)
    \/ \E h \in WithFresh : OnEachAcquire(h, KeyTTL)
    \/ \E h \in WithStatic, token \in TokenStrings, ttl \in TTLs :
          OnEachAcquireWithStaticToken(h, token, ttl)
    \/ \E h \in Handles : OnEachRelease(h)
    \/ \E h \in Handles : OnEachExtend(h)

SpecDialects == Init /\ [][NextDialects]_vars

\* handle h, which no acquire under dialect d has succeeded for, has just
\* called Extend or Release
NeverAcquiredCalls(d, h) ==
    /\ sql'.op \in {"Extend", "Release"} /\ sql'.h = h
    /\ sql.side[d].token[h] = NoToken /\ sql.side[d].ttl[h] = 0

\* C38: Extend or Release on a handle that has never successfully acquired
\* (token empty, TTL zero) returns ErrLockAlreadyReleased and changes no row,
\* whatever the current state of the key
C38_NeverAcquiredIsAlreadyReleased ==
    [][ \A d \in Dialects, h \in Handles :
          NeverAcquiredCalls(d, h)
              => /\ sql'.side[d].err = ErrLockAlreadyReleased
                 /\ sql'.side[d].row = sql.side[d].row ]_vars

\* C38, as the templates have it: under PostgreSQL the empty token is no uuid
\* and the call returns the driver's error, no row changed; under MySQL it
\* returns ErrLockAlreadyReleased with no row changed unless the key is held
\* under the empty string as a static token, which the call then releases, or
\* extends by its TTL of zero
C38_NeverAcquiredByDialect ==
    [][ \A d \in Dialects, h \in Handles :
          NeverAcquiredCalls(d, h)
              => IF d = "postgres"
                   THEN /\ sql'.side[d].err = ErrDriver
                        /\ sql'.side[d].row = sql.side[d].row
                 ELSE IF sql.side[d].row.token = NoToken /\ HeldIn(d, sql.clock)
                   THEN /\ sql'.side[d].row.token = NoToken
                        /\ sql'.op = "Release"
                             => /\ sql'.side[d].err = ErrNil
                                /\ sql'.side[d].row.expire = NULL
                        /\ sql'.op = "Extend"
                             => /\ sql'.side[d].row.expire = mySQLNow(sql.clock)
                                /\ sql'.side[d].err =
                                     IF sql.side[d].row.expire = mySQLNow(sql.clock)
                                       THEN ErrLockAlreadyReleased ELSE ErrNil
                 ELSE /\ sql'.side[d].err = ErrLockAlreadyReleased
                      /\ sql'.side[d].row = sql.side[d].row ]_vars

\* a handle that never acquired has called Extend or Release while another
\* handle's lease is running: the driver's error under PostgreSQL,
\* ErrLockAlreadyReleased under MySQL
C38_Witness ==
    /\ sql.op \in {"Extend", "Release"}
    /\ \A d \in Dialects :
          /\ sql.side[d].token[sql.h] = NoToken /\ sql.side[d].ttl[sql.h] = 0
          /\ HeldIn(d, sql.clock) /\ IsUUID(sql.side[d].row.token)
    /\ sql.side["postgres"].err = ErrDriver
    /\ sql.side["mysql"].err = ErrLockAlreadyReleased

\* a PostgreSQL row and a MySQL row say the same: expire_at is the same
\* instant, in microseconds and in ticks
SameRow(p, m) ==
    /\ p.exists = m.exists /\ p.token = m.token
    /\ p.expire = (IF m.expire = NULL THEN NULL ELSE m.expire * TickMicros)

\* the two tables and the handles on them are in the same state
SameState(s) ==
    /\ SameRow(s.side["postgres"].row, s.side["mysql"].row)
    /\ s.side["postgres"].token = s.side["mysql"].token
    /\ s.side["postgres"].ttl = s.side["mysql"].ttl

\* the token the last call has sent to a database in state s
TokenSent(s, d) ==
    IF sql'.op = "Acquire" THEN sql'.tok ELSE s.side[d].token[sql'.h]

\* C40: for every sequence of NewLock, acquire, extend and release calls and
\* clock advances, the PostgreSQL and the MySQL query templates take the same
\* transitions: the same calls succeed or fail with the same domain errors,
\* and the key is held or free at the same instants
C40_DialectsAgree ==
    /\ sql.side["postgres"].err = sql.side["mysql"].err
    /\ HeldIn("postgres", sql.clock) <=> HeldIn("mysql", sql.clock)
    /\ SameState(sql)

\* C40, as the templates have it: from the same state a call leaves the two
\* tables in the same state with the same result, except that (1) a call
\* whose token is not the text of a UUID fails with the driver's error under
\* PostgreSQL alone, and (2) an acquire or extend that writes the values the
\* row already has returns nil under PostgreSQL and the domain error under
\* MySQL, the rows still saying the same
C40_DialectsAgreeOnChanges ==
    [][ LET pg == sql.side["postgres"]
            my == sql.side["mysql"]
        IN  (SameState(sql) /\ sql'.op # "none")
              => \/ /\ SameState(sql')
                    /\ pg'.err = my'.err
                 \/ /\ ~IsUUID(TokenSent(sql, "postgres"))
                    /\ pg'.err = ErrDriver /\ pg'.row = pg.row
                    /\ my'.err # ErrDriver
                 \/ /\ sql'.op \in {"Acquire", "Extend"}
                    /\ pg'.err = ErrNil /\ pg'.row = pg.row
                    /\ my'.err = (IF sql'.op = "Acquire" THEN ErrLockAlreadyAcquired
                                  ELSE ErrLockAlreadyReleased)
                    /\ my'.row = my.row ]_vars

\* the same acquire, made from the same state, has returned nil under
\* PostgreSQL and ErrLockAlreadyAcquired under MySQL, the rows saying the same
C40_Witness ==
    /\ sql.op = "Acquire" /\ IsUUID(sql.tok)
    /\ sql.side["postgres"].err = ErrNil
    /\ sql.side["mysql"].err = ErrLockAlreadyAcquired
    /\ SameRow(sql.side["postgres"].row, sql.side["mysql"].row)
    /\ HeldIn("postgres", sql.clock) /\ HeldIn("mysql", sql.clock)
    /\ sql.side["mysql"].row.token = sql.tok

\* ------------------------------------------------------------- two keys
\* The test "acquire 2 locks with 2 different keys within 2 different
\* concurrent transactions": handles on either key, each acquiring inside a
\* transaction of its own that stays open while the others work, then
\* committing, and releasing in a second transaction.
NextTwoKeys ==
    \/ ClockRuns
    \/ \E h \in Handles, k \in Keys :
          NewLock(h, k) /\ UNCHANGED <<lapsed, sql, retryvars, procvars, ticker, calls>>
    \/ \E h \in Handles, ttl \in TTLs : DoInTxAcquire(h, ttl)
    \/ \E h \in Handles, ok \in BOOLEAN : DoInTxCommit(h, ok)
    \/ \E h \in Handles : LoopRollback(h)
    \/ \E h \in Handles : LoopRetry(h)
    \/ \E h \in Handles : LoopRelease(h)
    \/ \E h \in Handles : LoopReleaseEnds(h)

SpecTwoKeys == Init /\ [][NextTwoKeys]_vars

\* the caller of handle h takes the step
Acted(h) == pc'[h] # pc[h] \/ out'[h] # out[h] \/ hkey'[h] # hkey[h]

\* C39: operations on one key never block on, or change the row of, another
\* key: two concurrently open transactions can each Acquire a different key
\* successfully, and each handle gets its own non-empty token
C39_KeysAreIndependent ==
    /\ [](\A h \in Handles :
            ( /\ pc[h] = "idle" /\ out[h] = "none" /\ hkey[h] # NoKey
              /\ lockOwner[hkey[h]] = 0 )
                => ENABLED DoInTxAcquire(h, KeyTTL))
    /\ [][ /\ \A k \in Keys :
                (rows'[k] # rows[k] \/ lockOwner'[k] # lockOwner[k])
                    => \E h \in Handles : Acted(h) /\ hkey'[h] = k
           /\ \A h \in Handles :
                ( /\ pc[h] = "idle" /\ pc'[h] \in {"commit", "rollback"}
                  /\ Free(rows[hkey[h]], now) /\ lockOwner[hkey[h]] = 0 )
                    => /\ ret'.op = "Acquire" /\ ret'.h = h
                       /\ ret'.err = ErrNil /\ pc'[h] = "commit"
                       /\ Token(h)' # NoToken
                       /\ \A g \in Handles \ {h} : Token(g)' # Token(h)'
                       /\ \A g \in Handles \ {h} : tx'[g] = tx[g]
         ]_vars

\* two transactions are open at once, each having acquired a different key,
\* each handle with a token of its own
C39_Witness ==
    \E g, h \in Handles :
        /\ hkey[g] = "k1" /\ hkey[h] = "k2"
        /\ pc[g] = "commit" /\ pc[h] = "commit"
        /\ lockOwner["k1"] = g /\ lockOwner["k2"] = h
        /\ tx[g].dirty /\ tx[h].dirty
        /\ Token(g) # NoToken /\ Token(h) # NoToken /\ Token(g) # Token(h)
        /\ ret.op = "Acquire" /\ ret.err = ErrNil
====
